---- MODULE Spec2Model ----
(***************************************************************************)
(* The system catalog of the master (kudu/master/sys_catalog.cc): the      *)
(* catalog tablet's bootstrap (CreateNew / Load), its leader-gated         *)
(* synchronous write path (Write / SyncWrite) and its visitors, together   *)
(* with the replicas of the consensus group the integration test           *)
(* (integration-tests/raft_consensus-itest.cc) drives.                     *)
(***************************************************************************)
EXTENDS Integers, Sequences, FiniteSets, TLC

(***************************************************************************)
(* Bounds of the model.                                                    *)
(***************************************************************************)
\* Row operations one Actions value may carry (over all six fields).
MaxOps == 2
\* Row operations of an Actions value in SpecReq.
MaxReqOps == 4
\* Write calls issued in one behaviour.
MaxWrites == 2
\* Entries of master_addresses in the startup options.
MaxMasters == 3
\* The changes of the consensus state a behaviour goes through.
MaxStateChanges == 3
\* The polls one call of WaitUntilRunning makes.
MaxPolls == 3

(***************************************************************************)
(* Program constants.                                                      *)
(***************************************************************************)
kNumReplicas == 3
TABLES_ENTRY == 1
TABLETS_ENTRY == 2

(***************************************************************************)
(* Status values (kudu::Status): a code and a message.                     *)
(***************************************************************************)
StatusOK == [code |-> "OK", msg |-> ""]
Status(c, m) == [code |-> c, msg |-> m]
kInjectedFailureStatusMsg == "INJECTED FAILURE"
kRowsFailedMsg == "One or more rows failed to write"
kNotLeaderMsg == "Replica is not leader of this quorum"
NotCalled == Status("NotCalled", "")

(***************************************************************************)
(* Identifiers and metadata records.  Ids are strings; IdOrder is their    *)
(* lexicographic order, the order in which the tablet stores and scans     *)
(* the rows of one entry type.                                             *)
(***************************************************************************)
Tables == {"T1"}
Tablets == {"S1", "S2"}
\* The tablets the masters of Spec write.
WrittenTablets == {"S1"}
IdOrder == <<"S1", "S2", "T1", "T2">>

\* SysTablesEntryPB, opaque to the catalog: one field stands for its content.
TablePBs == {[name |-> "a"]}

\* SysTabletsEntryPB: table_id, the optional partition record and the optional
\* deprecated start/end keys, each with its has-bit; a field that is not set
\* holds its default value, the empty string.
NoPartition == [partition_key_start |-> "", partition_key_end |-> ""]
TabletPB(tid, hp, part, hds, ds, hde, de) ==
  [table_id |-> tid,
   has_partition |-> hp, partition |-> part,
   has_deprecated_start_key |-> hds, deprecated_start_key |-> ds,
   has_deprecated_end_key |-> hde, deprecated_end_key |-> de]
KeyRange == [partition_key_start |-> "k0", partition_key_end |-> "k9"]
ModernPB == TabletPB("T1", TRUE, KeyRange, FALSE, "", FALSE, "")
LegacyPB == TabletPB("T1", FALSE, NoPartition, TRUE, "k0", TRUE, "k9")
BothPB == TabletPB("T1", TRUE, KeyRange, TRUE, "k0", TRUE, "k9")
NeitherPB == TabletPB("T1", FALSE, NoPartition, FALSE, "", FALSE, "")
TabletPBs == {ModernPB, LegacyPB}

(***************************************************************************)
(* The wire form of a metadata record: the sequence of <<field, value>>    *)
(* pairs of the fields that are set, in field-number order.                *)
(***************************************************************************)
SerializeTable(pb) == <<<<"name", pb.name>>>>

ParseTable(buf) == [name |-> buf[1][2]]

SerializeTablet(pb) ==
  (IF pb.has_deprecated_start_key
     THEN <<<<"deprecated_start_key", pb.deprecated_start_key>>>> ELSE <<>>)
  \o (IF pb.has_deprecated_end_key
     THEN <<<<"deprecated_end_key", pb.deprecated_end_key>>>> ELSE <<>>)
  \o <<<<"table_id", pb.table_id>>>>
  \o (IF pb.has_partition THEN <<<<"partition", pb.partition>>>> ELSE <<>>)

HasField(buf, f) == \E i \in 1..Len(buf) : buf[i][1] = f

FieldOf(buf, f, default) ==
  IF HasField(buf, f)
    THEN buf[CHOOSE i \in 1..Len(buf) : buf[i][1] = f][2]
    ELSE default

ParseTablet(buf) ==
  TabletPB(FieldOf(buf, "table_id", ""),
           HasField(buf, "partition"), FieldOf(buf, "partition", NoPartition),
           HasField(buf, "deprecated_start_key"), FieldOf(buf, "deprecated_start_key", ""),
           HasField(buf, "deprecated_end_key"), FieldOf(buf, "deprecated_end_key", ""))

\* The metadata column of a DELETE row operation is not set.
NoMetadata == <<>>

(***************************************************************************)
(* Row operations of a write request.                                      *)
(***************************************************************************)
RowOp(t, et, id, md) == [type |-> t, entry_type |-> et, entry_id |-> id, metadata |-> md]

\* ReqAddTable with the entry type of the tablet rows.
ReqAddTable_TabletType(table) ==
  <<RowOp("INSERT", TABLETS_ENTRY, table.id, SerializeTable(table.pb))>>

ReqAddTable(table) ==
  <<RowOp("INSERT", TABLES_ENTRY, table.id, SerializeTable(table.pb))>>

ReqUpdateTable(table) ==
  <<RowOp("UPDATE", TABLES_ENTRY, table.id, SerializeTable(table.pb))>>

ReqDeleteTable(table) ==
  <<RowOp("DELETE", TABLES_ENTRY, table.id, NoMetadata)>>

\* ReqAddTablets with the entry type of the table rows.
ReqAddTablets_TableType(tablets) ==
  [i \in 1..Len(tablets) |->
     RowOp("INSERT", TABLES_ENTRY, tablets[i].id, SerializeTablet(tablets[i].pb))]

ReqAddTablets(tablets) ==
  [i \in 1..Len(tablets) |->
     RowOp("INSERT", TABLETS_ENTRY, tablets[i].id, SerializeTablet(tablets[i].pb))]

ReqUpdateTablets(tablets) ==
  [i \in 1..Len(tablets) |->
     RowOp("UPDATE", TABLETS_ENTRY, tablets[i].id, SerializeTablet(tablets[i].pb))]

ReqDeleteTablets(tablets) ==
  [i \in 1..Len(tablets) |->
     RowOp("DELETE", TABLETS_ENTRY, tablets[i].id, NoMetadata)]

\* A TableInfo pointer is a sequence of at most one TableInfo; nullptr is empty.
nullptr == <<>>

\* WriteRowOperations with the table delete encoded before the table add.
WriteRowOperations_DeleteBeforeAdd(actions) ==
  (IF actions.table_to_delete # nullptr THEN ReqDeleteTable(actions.table_to_delete[1]) ELSE <<>>)
  \o (IF actions.table_to_add # nullptr THEN ReqAddTable(actions.table_to_add[1]) ELSE <<>>)
  \o (IF actions.table_to_update # nullptr THEN ReqUpdateTable(actions.table_to_update[1]) ELSE <<>>)
  \o ReqAddTablets(actions.tablets_to_add)
  \o ReqUpdateTablets(actions.tablets_to_update)
  \o ReqDeleteTablets(actions.tablets_to_delete)

\* WriteRowOperations with the table delete encoded before the table update.
WriteRowOperations_DeleteFirst(actions) ==
  (IF actions.table_to_add # nullptr THEN ReqAddTable(actions.table_to_add[1]) ELSE <<>>)
  \o (IF actions.table_to_delete # nullptr THEN ReqDeleteTable(actions.table_to_delete[1]) ELSE <<>>)
  \o (IF actions.table_to_update # nullptr THEN ReqUpdateTable(actions.table_to_update[1]) ELSE <<>>)
  \o ReqAddTablets(actions.tablets_to_add)
  \o ReqUpdateTablets(actions.tablets_to_update)
  \o ReqDeleteTablets(actions.tablets_to_delete)

\* The row operations Write encodes into its single request, in call order.
WriteRowOperations(actions) ==
  (IF actions.table_to_add # nullptr THEN ReqAddTable(actions.table_to_add[1]) ELSE <<>>)
  \o (IF actions.table_to_update # nullptr THEN ReqUpdateTable(actions.table_to_update[1]) ELSE <<>>)
  \o (IF actions.table_to_delete # nullptr THEN ReqDeleteTable(actions.table_to_delete[1]) ELSE <<>>)
  \o ReqAddTablets(actions.tablets_to_add)
  \o ReqUpdateTablets(actions.tablets_to_update)
  \o ReqDeleteTablets(actions.tablets_to_delete)

\* The request Write builds (tablet id, schema and row operations).
kSysCatalogTabletId == "00000000000000000000000000000000"
BuildTableSchema ==
  <<[name |-> "entry_type", type |-> "INT8", key |-> TRUE],
    [name |-> "entry_id", type |-> "STRING", key |-> TRUE],
    [name |-> "metadata", type |-> "STRING", key |-> FALSE]>>


(***************************************************************************)
(* Actions values.  Every TableInfo / TabletInfo is one in-memory object   *)
(* per id, whose dirty metadata is whatever the catalog manager holds at   *)
(* the time of the call (tinfo, sinfo).                                    *)
(***************************************************************************)
SeqsUpTo(S, n) == UNION {[1..k -> S] : k \in 0..n}

TableInfos(tinfo) == {[id |-> t, pb |-> tinfo[t]] : t \in DOMAIN tinfo}
TabletInfos(sinfo) == {[id |-> s, pb |-> sinfo[s]] : s \in DOMAIN sinfo}

NumOps(actions) ==
  Len(actions.table_to_add) + Len(actions.table_to_update) + Len(actions.table_to_delete)
  + Len(actions.tablets_to_add) + Len(actions.tablets_to_update)
  + Len(actions.tablets_to_delete)

ActionsOver(tinfo, sinfo, n) ==
  {a \in [table_to_add : SeqsUpTo(TableInfos(tinfo), 1),
          table_to_update : SeqsUpTo(TableInfos(tinfo), 1),
          table_to_delete : SeqsUpTo(TableInfos(tinfo), 1),
          tablets_to_add : SeqsUpTo(TabletInfos(sinfo), n),
          tablets_to_update : SeqsUpTo(TabletInfos(sinfo), n),
          tablets_to_delete : SeqsUpTo(TabletInfos(sinfo), n)] : NumOps(a) <= n}

ActionsWith(tables, tablets, n) ==
  UNION {ActionsOver(tinfo, sinfo, n) :
           tinfo \in [tables -> TablePBs], sinfo \in [tablets -> TabletPBs]}

ActionsSet == {a : a \in ActionsWith(Tables, WrittenTablets, MaxOps)}

\* Actions::Actions(): every field empty.
EmptyActions ==
  [table_to_add |-> nullptr, table_to_update |-> nullptr, table_to_delete |-> nullptr,
   tablets_to_add |-> <<>>, tablets_to_update |-> <<>>, tablets_to_delete |-> <<>>]

(***************************************************************************)
(* The tablet engine: a row store keyed by (entry_type, entry_id).         *)
(***************************************************************************)
Row(et, id, md) == [entry_type |-> et, entry_id |-> id, metadata |-> md]

HasKey(rows, et, id) == \E r \in rows : r.entry_type = et /\ r.entry_id = id

RowAt(rows, et, id) == CHOOSE r \in rows : r.entry_type = et /\ r.entry_id = id

WithoutKey(rows, et, id) == {r \in rows : ~(r.entry_type = et /\ r.entry_id = id)}

\* One row operation applied to the rows: the new rows and the per-row error
\* (OK when the operation succeeded).
ApplyRowOp(rows, op) ==
  LET present == HasKey(rows, op.entry_type, op.entry_id)
      row == Row(op.entry_type, op.entry_id, op.metadata)
  IN  CASE op.type = "INSERT" ->
             IF present
               THEN [rows |-> rows, error |-> Status("AlreadyPresent", "key already present")]
               ELSE [rows |-> rows \cup {row}, error |-> StatusOK]
        [] op.type = "UPDATE" ->
             IF present
               THEN [rows |-> WithoutKey(rows, op.entry_type, op.entry_id) \cup {row},
                     error |-> StatusOK]
               ELSE [rows |-> rows, error |-> Status("NotFound", "key not found")]
        [] OTHER ->
             IF present
               THEN [rows |-> WithoutKey(rows, op.entry_type, op.entry_id),
                     error |-> StatusOK]
               ELSE [rows |-> rows, error |-> Status("NotFound", "key not found")]

\* The row operations of one write applied in order: the rows after the
\* write and, per operation, its status.
RECURSIVE ApplyRowOps(_, _)
ApplyRowOps(rows, ops) ==
  IF ops = <<>>
    THEN [rows |-> rows, results |-> <<>>]
    ELSE LET one == ApplyRowOp(rows, Head(ops))
             rest == ApplyRowOps(one.rows, Tail(ops))
         IN  [rows |-> rest.rows, results |-> <<one.error>> \o rest.results]

\* WriteResponsePB.per_row_errors: one entry, with its row index (from 0), for
\* each operation that failed.
RECURSIVE PerRowErrors(_, _)
PerRowErrors(results, base) ==
  IF results = <<>>
    THEN <<>>
    ELSE (IF Head(results).code = "OK"
            THEN <<>>
            ELSE <<[row_index |-> base, error |-> Head(results)]>>)
         \o PerRowErrors(Tail(results), base + 1)

\* The row operations of a write request as the tablet decodes them before it
\* replicates or applies anything: every operation must be of a type the
\* decoder knows.
CanDecode(request) ==
  \A i \in 1..Len(request) : request[i].type \in {"INSERT", "UPDATE", "DELETE"}

kDecodeFailedMsg == "Cannot decode row operations"

NoResponse == [has_error |-> FALSE, error |-> StatusOK, per_row_errors |-> <<>>]

(***************************************************************************)
(* SyncWrite.                                                              *)
(***************************************************************************)
\* fault_injection MaybeTrue: a draw of [0, 1) against the fraction, both in
\* hundredths.
MaybeTrue(fraction, draw) == fraction > 0 /\ draw <= fraction

\* The fault hook with its comparison turned round.
SyncWriteFaults_Inverted(fraction, draw) == fraction > 0 /\ draw >= fraction

\* MAYBE_RETURN_FAILURE(FLAGS_sys_catalog_fail_during_write, ...) at the top of
\* SyncWrite.
SyncWriteFaults(fraction, draw) == MaybeTrue(fraction, draw)

\* SyncWrite leaving out the submission of a request without row operations.
SyncWriteSubmits_SkipEmpty(request) == IF request = <<>> THEN <<>> ELSE <<request>>

\* SyncWrite submitting the request a second time.
SyncWriteSubmits_Twice(request) == <<request, request>>

\* The write transactions SyncWrite submits to the tablet peer for a request.
SyncWriteSubmits(request) == <<request>>

\* SyncWrite returning the first per-row error itself.
SyncWriteStatus_FirstRowError(response) ==
  IF response.has_error
    THEN response.error
    ELSE IF Len(response.per_row_errors) > 0
      THEN response.per_row_errors[1].error
      ELSE StatusOK

\* SyncWrite without the check of the RPC-level error.
SyncWriteStatus_IgnoreError(response) ==
  IF Len(response.per_row_errors) > 0
    THEN Status("Corruption", kRowsFailedMsg)
    ELSE StatusOK

\* The status SyncWrite returns once the latch is released.
SyncWriteStatus(response) ==
  IF response.has_error
    THEN response.error
    ELSE IF Len(response.per_row_errors) > 0
      THEN Status("Corruption", kRowsFailedMsg)
      ELSE StatusOK


(***************************************************************************)
(* Visitors: the scan of one entry type, in key order, and the decoding of *)
(* each row handed to the visitor.                                         *)
(***************************************************************************)
ScanRows(rows, et) ==
  LET ids == SelectSeq(IdOrder, LAMBDA id : HasKey(rows, et, id))
  IN  [i \in 1..Len(ids) |-> RowAt(rows, et, ids[i])]

\* The visitor is handed a metadata record that was not parsed from the row.
VisitTableFromRow_NoMetadata(row) ==
  [table_id |-> row.entry_id, metadata |-> [name |-> ""]]

VisitTableFromRow(row) ==
  [table_id |-> row.entry_id, metadata |-> ParseTable(row.metadata)]

\* The upgrade from the deprecated start/end-key fields to the partition field.
UpgradeTablet(metadata) ==
  IF ~metadata.has_partition
    THEN [metadata EXCEPT
            !.has_partition = TRUE,
            !.partition = [partition_key_start |-> metadata.deprecated_start_key,
                           partition_key_end |-> metadata.deprecated_end_key],
            !.has_deprecated_start_key = FALSE, !.deprecated_start_key = "",
            !.has_deprecated_end_key = FALSE, !.deprecated_end_key = ""]
    ELSE metadata

VisitTabletFromRow(row) ==
  LET metadata == UpgradeTablet(ParseTablet(row.metadata))
  IN  [table_id |-> metadata.table_id, tablet_id |-> row.entry_id, metadata |-> metadata]

VisitTablesCalls(rows) ==
  LET scan == ScanRows(rows, TABLES_ENTRY)
  IN  [i \in 1..Len(scan) |-> VisitTableFromRow(scan[i])]

VisitTabletsCalls(rows) ==
  LET scan == ScanRows(rows, TABLETS_ENTRY)
  IN  [i \in 1..Len(scan) |-> VisitTabletFromRow(scan[i])]

\* pb_util::ParseFromArray on the metadata column: a blob with a field that
\* has no tag is not a serialized record.
CanParse(buf) == \A i \in 1..Len(buf) : buf[i][1] # ""

kVisitorFailedMsg == "visitor failed"

\* The status the visitor returns from its n-th call: a visitor that fails
\* does so at call number failAt (0: it never fails).
VisitorReturns(failAt, n) ==
  IF n = failAt THEN Status("IllegalState", kVisitorFailedMsg) ELSE StatusOK

\* The status of VisitTableFromRow / VisitTabletFromRow for one row: the parse
\* failure with its prefix, or what the visitor returned from call number n.
VisitFromRowStatus(row, failAt, n) ==
  IF ~CanParse(row.metadata)
    THEN Status("Corruption",
                (IF row.entry_type = TABLES_ENTRY
                   THEN "Unable to parse metadata field for table "
                   ELSE "Unable to parse metadata field for tablet ") \o row.entry_id)
    ELSE VisitorReturns(failAt, n)

\* The scan going on to the next row whatever the status of the last one.
ScanStops_Never(status) == FALSE

\* RETURN_NOT_OK in the loop over the rows of a block.
ScanStops(status) == status # StatusOK

\* The loop of VisitTables / VisitTablets over the rows the iterator selects,
\* from the point where the visitor has been called for the rows in done: the
\* calls made, what the visitor returned from each, and the status returned.
RECURSIVE VisitRows(_, _, _, _)
VisitRows(scan, failAt, done, returns) ==
  IF scan = <<>>
    THEN [calls |-> done, returns |-> returns, status |-> StatusOK]
    ELSE LET row == Head(scan)
             parsed == CanParse(row.metadata)
             s == VisitFromRowStatus(row, failAt, Len(done) + 1)
             now == IF ~parsed THEN done
                    ELSE Append(done, IF row.entry_type = TABLES_ENTRY
                                        THEN VisitTableFromRow(row)
                                        ELSE VisitTabletFromRow(row))
             rets == IF parsed THEN Append(returns, s) ELSE returns
         IN  IF ScanStops(s)
               THEN [calls |-> now, returns |-> rets, status |-> s]
               ELSE VisitRows(Tail(scan), failAt, now, rets)

\* VisitTables / VisitTablets with a visitor that fails at call number failAt.
VisitScan(rows, et, failAt) == VisitRows(ScanRows(rows, et), failAt, <<>>, <<>>)

(***************************************************************************)
(* The masters and the state of each.                                      *)
(***************************************************************************)
HostOrder == <<"m1", "m2", "m3", "m4">>
Masters == {HostOrder[i] : i \in 1..kNumReplicas}
LocalMaster == HostOrder[1]

(***************************************************************************)
(* Master options, host ports and the Raft configuration.                  *)
(***************************************************************************)
kInvalidOpIdIndex == -1
kMinimumTerm == 0

\* The permanent uuid of the filesystem of a master host.
UuidOf(h) == "uuid-" \o h
Unreachable == ""

HostPortOf(h) == [host |-> h, port |-> 7051]
MasterAddrs == {HostPortOf(h) : h \in Masters}

\* MasterOptions: the master_addresses startup option.
MasterOptions(addrs) == [master_addresses |-> addrs]
MasterOptionsSet == {MasterOptions(s) : s \in SeqsUpTo(MasterAddrs, MaxMasters)}
IsDistributed(options) == options.master_addresses # <<>>

\* HostPortToPB dropping the port.
HostPortToPB_NoPort(hp) == [has_host |-> TRUE, host |-> hp.host, has_port |-> FALSE, port |-> 0]

\* HostPort <-> HostPortPB (optional fields with their has-bits) and the
\* "host:port" rendering of HostPort::ToString.
HostPortToPB(hp) == [has_host |-> TRUE, host |-> hp.host, has_port |-> TRUE, port |-> hp.port]
NoHostPortPB == [has_host |-> FALSE, host |-> "", has_port |-> FALSE, port |-> 0]
HostPortFromPB(pb) == [host |-> pb.host, port |-> pb.port]
HostPortToString(hp) == hp.host \o ":" \o ToString(hp.port)

\* The rendered addresses in the order std::set<string> iterates them.
AddrOrder ==
  <<HostPortToString(HostPortFromPB(NoHostPortPB))>>
  \o [i \in 1..Len(HostOrder) |-> HostPortToString(HostPortOf(HostOrder[i]))]

RaftPeerPB(hasUuid, uuid, hasAddr, addr, memberType) ==
  [has_permanent_uuid |-> hasUuid, permanent_uuid |-> uuid,
   has_last_known_addr |-> hasAddr, last_known_addr |-> addr,
   member_type |-> memberType]

RaftConfigPB(local, index, peers) ==
  [obsolete_local |-> local, opid_index |-> index, peers |-> peers]

\* The outcomes of the uuid discovery RPCs: every host answers with its own
\* uuid or cannot be reached; the last host may also answer with the uuid of
\* the one before it (two addresses of one master).
DiscoveryOutcomes ==
  {d \in [Masters -> {UuidOf(h) : h \in Masters} \cup {Unreachable}] :
     \A i \in 1..kNumReplicas :
       \/ d[HostOrder[i]] \in {UuidOf(HostOrder[i]), Unreachable}
       \/ i = kNumReplicas /\ d[HostOrder[i]] = UuidOf(HostOrder[i - 1])}

\* consensus::VerifyRaftConfig: not empty, every peer a voter with a uuid, no
\* uuid and no address twice.
VerifyRaftConfig(config) ==
  LET peers == config.peers
      n == Len(peers)
  IN  IF n = 0
        THEN Status("InvalidArgument", "RaftConfig must have at least one peer")
      ELSE IF \E i \in 1..n : ~peers[i].has_permanent_uuid \/ peers[i].permanent_uuid = ""
        THEN Status("InvalidArgument", "One peer didn't have an uuid or had the empty string")
      ELSE IF \E i, j \in 1..n : i < j /\ peers[i].permanent_uuid = peers[j].permanent_uuid
        THEN Status("InvalidArgument", "Found multiple peers with the same uuid")
      ELSE IF \E i, j \in 1..n :
                /\ i < j
                /\ peers[i].has_last_known_addr /\ peers[j].has_last_known_addr
                /\ peers[i].last_known_addr = peers[j].last_known_addr
        THEN Status("InvalidArgument", "Found multiple peers with the same address")
      ELSE IF \E i \in 1..n : peers[i].member_type # "VOTER"
        THEN Status("InvalidArgument", "Peer is not a voter")
      ELSE StatusOK

\* The peers of CreateDistributedConfig in the reverse of the configured order.
NewConfigPeers_Reversed(options) ==
  [i \in 1..Len(options.master_addresses) |->
     [has_permanent_uuid |-> FALSE, permanent_uuid |-> "",
      has_last_known_addr |-> TRUE,
      last_known_addr |->
        HostPortToPB(options.master_addresses[Len(options.master_addresses) + 1 - i]),
      member_type |-> "VOTER"]]

\* The peers of CreateDistributedConfig before discovery: one voter per
\* configured address, in configured order, without uuid.
NewConfigPeers(options) ==
  [i \in 1..Len(options.master_addresses) |->
     RaftPeerPB(FALSE, "", TRUE, HostPortToPB(options.master_addresses[i]), "VOTER")]

\* SetPermanentUuidForRemotePeer under the discovery outcomes.
Resolved(peer, discovered) ==
  [peer EXCEPT !.has_permanent_uuid = TRUE,
               !.permanent_uuid = discovered[peer.last_known_addr.host]]

Unresolvable(peers, discovered) ==
  {i \in 1..Len(peers) :
     ~peers[i].has_permanent_uuid /\ discovered[peers[i].last_known_addr.host] = Unreachable}

First(S) == CHOOSE i \in S : \A j \in S : i <= j

\* CreateDistributedConfig(options, &config): the status, the committed
\* configuration on success, and the number of discovery RPCs issued.
CreateDistributedConfig(options, discovered) ==
  LET new_peers == NewConfigPeers(options)
      bad == Unresolvable(new_peers, discovered)
      resolved_config ==
        RaftConfigPB(FALSE, kInvalidOpIdIndex,
                     [i \in 1..Len(new_peers) |->
                        IF new_peers[i].has_permanent_uuid
                          THEN new_peers[i] ELSE Resolved(new_peers[i], discovered)])
  IN  IF bad # {}
        THEN [status |-> Status("NetworkError",
                                "Unable to resolve UUID for peer "
                                \o HostPortToString(HostPortFromPB(new_peers[First(bad)].last_known_addr))),
              config |-> <<>>,
              rpcs |-> First(bad)]
      ELSE IF VerifyRaftConfig(resolved_config) # StatusOK
        THEN [status |-> VerifyRaftConfig(resolved_config), config |-> <<>>,
              rpcs |-> Len(new_peers)]
      ELSE [status |-> StatusOK, config |-> <<resolved_config>>, rpcs |-> Len(new_peers)]

\* The single-peer configuration of a master that is not distributed.
\* The configuration of a master on its own without the local flag.
LocalConfig_NotLocal(uuid) ==
  RaftConfigPB(FALSE, kInvalidOpIdIndex, <<RaftPeerPB(TRUE, uuid, FALSE, NoHostPortPB, "VOTER")>>)

LocalConfig(uuid) ==
  RaftConfigPB(TRUE, kInvalidOpIdIndex, <<RaftPeerPB(TRUE, uuid, FALSE, NoHostPortPB, "VOTER")>>)

(***************************************************************************)
(* SetupTablet, CreateNew and Load as functions of the disk, the options   *)
(* and the outcomes of the collaborators.                                  *)
(***************************************************************************)
\* Schema::Equals comparing the key columns only.
SchemaEquals_KeyColumnsOnly(a, b) ==
  SelectSeq(a, LAMBDA col : col.key) = SelectSeq(b, LAMBDA col : col.key)

\* Schema::Equals: the same columns in the same order.
SchemaEquals(a, b) == a = b

\* A persisted schema with a fourth column.
DriftedSchema == Append(BuildTableSchema, [name |-> "extra", type |-> "STRING", key |-> FALSE])

TabletMetadata(schema) ==
  [tablet_id |-> kSysCatalogTabletId, schema |-> schema, partitions |-> 1,
   tablet_data_state |-> "TABLET_DATA_READY"]

ConsensusMetadata(config, term) == [committed_config |-> config, current_term |-> term]

\* The steps of SetupTablet that can fail, and NoFailure.
NoFailure == "none"
SetupFailures == {NoFailure, "BootstrapTablet", "Init", "Start"}

\* The failures the collaborators of SetupTablet come back with.
kNoConsensusMetadata == Status("NotFound", "Unable to load Consensus metadata")
kBootstrapFailed == Status("IOError", "log replay failed")
kPeerFailed == Status("IOError", "tablet peer failed")

\* RETURN_NOT_OK_PREPEND: the status with the message put in front of its own.
Prepend(s, msg) == Status(s.code, msg \o ": " \o s.msg)

kInitPrefix == "Failed to Init() TabletPeer"
kStartPrefix == "Failed to Start() TabletPeer"

NotSetUp == [status |-> NotCalled, steps |-> <<>>, tablet_peer_ |-> nullptr]

\* SetupTablet going on to Start and the steps after it when Init has failed.
SetupTablet_IgnoresInit(cmeta, failAt) ==
  LET fail == IF cmeta = <<>> THEN "BootstrapTablet" ELSE failAt
      upto == <<"InitLocalRaftPeerPB", "TabletPeer", "SetBootstrapping", "BootstrapTablet">>
  IN  CASE fail = "BootstrapTablet" ->
             [status |-> IF cmeta = <<>> THEN kNoConsensusMetadata ELSE kBootstrapFailed,
              steps |-> upto,
              tablet_peer_ |-> <<"BOOTSTRAPPING">>]
        [] fail = "Init" ->
             [status |-> Prepend(kPeerFailed, kInitPrefix),
              steps |-> upto \o <<"Init", "Start", "RegisterMaintenanceOps", "schema_">>,
              tablet_peer_ |-> <<"BOOTSTRAPPING">>]
        [] fail = "Start" ->
             [status |-> Prepend(kPeerFailed, kStartPrefix),
              steps |-> upto \o <<"Init", "Start">>,
              tablet_peer_ |-> <<"BOOTSTRAPPING">>]
        [] OTHER ->
             [status |-> StatusOK,
              steps |-> upto \o <<"Init", "Start", "RegisterMaintenanceOps", "schema_">>,
              tablet_peer_ |-> <<"RUNNING">>]

\* SetupTablet(metadata): the steps taken in order, the status returned and
\* the tablet peer left behind.  Bootstrap reads the consensus metadata of the
\* tablet and fails when there is none.
SetupTablet(cmeta, failAt) ==
  LET fail == IF cmeta = <<>> THEN "BootstrapTablet" ELSE failAt
      upto == <<"InitLocalRaftPeerPB", "TabletPeer", "SetBootstrapping", "BootstrapTablet">>
  IN  CASE fail = "BootstrapTablet" ->
             [status |-> IF cmeta = <<>> THEN kNoConsensusMetadata ELSE kBootstrapFailed,
              steps |-> upto,
              tablet_peer_ |-> <<"BOOTSTRAPPING">>]
        [] fail = "Init" ->
             [status |-> Prepend(kPeerFailed, kInitPrefix),
              steps |-> upto \o <<"Init">>,
              tablet_peer_ |-> <<"BOOTSTRAPPING">>]
        [] fail = "Start" ->
             [status |-> Prepend(kPeerFailed, kStartPrefix),
              steps |-> upto \o <<"Init", "Start">>,
              tablet_peer_ |-> <<"BOOTSTRAPPING">>]
        [] OTHER ->
             [status |-> StatusOK,
              steps |-> upto \o <<"Init", "Start", "RegisterMaintenanceOps", "schema_">>,
              tablet_peer_ |-> <<"RUNNING">>]

\* std::set_symmetric_difference keeping the addresses of the first set only.
SymmetricDifference_OneSided(a, b) == SelectSeq(AddrOrder, LAMBDA x : x \in a /\ x \notin b)

\* std::set_symmetric_difference of two sets of rendered addresses: the
\* addresses in exactly one of them, in order.
SymmetricDifference(a, b) == SelectSeq(AddrOrder, LAMBDA x : (x \in a) # (x \in b))

RECURSIVE JoinStrings(_, _)
JoinStrings(strs, sep) ==
  IF strs = <<>> THEN ""
  ELSE IF Len(strs) = 1 THEN strs[1]
  ELSE strs[1] \o sep \o JoinStrings(Tail(strs), sep)

\* The message naming the first differing address only.
MasterListsDiffer_FirstOnly(symm_diff) ==
  "on-disk and provided master lists are different: " \o symm_diff[1]

MasterListsDiffer(symm_diff) ==
  "on-disk and provided master lists are different: " \o JoinStrings(symm_diff, " ")

PeerAddrsFromOpts(options) ==
  {HostPortToString(options.master_addresses[i]) : i \in 1..Len(options.master_addresses)}

PeerAddrsFromDisk(config) ==
  {HostPortToString(HostPortFromPB(config.peers[i].last_known_addr)) : i \in 1..Len(config.peers)}

\* The outcome of a boot call: which call, its status, how often it loaded the
\* consensus metadata, invoked SetupTablet and issued a discovery RPC, and the
\* SetupTablet steps taken.
BootResult(op, status, cmetaLoads, rpcs, setup) ==
  [op |-> op, status |-> status, cmeta_loads |-> cmetaLoads, rpcs |-> rpcs,
   setup_calls |-> IF setup = NotSetUp THEN 0 ELSE 1,
   setup_status |-> setup.status, steps |-> setup.steps]

NotBooted == BootResult("none", NotCalled, 0, 0, NotSetUp)

\* Load(fs_manager): the boot result and the tablet peer.
LoadOutcome(options, tmeta, cmeta, failAt) ==
  LET setup == SetupTablet(cmeta, failAt)
      failed(status, loads) ==
        [boot |-> BootResult("Load", status, loads, 0, NotSetUp), tablet_peer_ |-> nullptr]
  IN  IF tmeta = <<>>
        THEN failed(Status("NotFound", "Could not load tablet metadata"), 0)
      ELSE IF ~SchemaEquals(tmeta[1].schema, BuildTableSchema)
        THEN failed(Status("Corruption", "Unexpected schema"), 0)
      ELSE IF IsDistributed(options) /\ cmeta = <<>>
        THEN failed(Status("NotFound", "Unable to load consensus metadata for tablet "
                                       \o tmeta[1].tablet_id), 1)
      ELSE IF IsDistributed(options) /\ VerifyRaftConfig(cmeta[1].committed_config) # StatusOK
        THEN failed(VerifyRaftConfig(cmeta[1].committed_config), 1)
      ELSE IF /\ IsDistributed(options)
              /\ SymmetricDifference(PeerAddrsFromOpts(options),
                                     PeerAddrsFromDisk(cmeta[1].committed_config)) # <<>>
        THEN failed(Status("InvalidArgument",
                           MasterListsDiffer(
                             SymmetricDifference(PeerAddrsFromOpts(options),
                                                 PeerAddrsFromDisk(cmeta[1].committed_config)))), 1)
      ELSE [boot |-> BootResult("Load", setup.status,
                                IF IsDistributed(options) THEN 1 ELSE 0, 0, setup),
            tablet_peer_ |-> setup.tablet_peer_]

\* CreateNew building the configuration before it persists the tablet
\* metadata: nothing is on disk when the configuration cannot be built.
CreateNewOutcome_ConfigFirst(options, tmeta, cmeta, uuid, discovered, failAt) ==
  LET metadata == <<TabletMetadata(BuildTableSchema)>>
      dist == CreateDistributedConfig(options, discovered)
      config == IF IsDistributed(options) THEN dist.config ELSE <<LocalConfig(uuid)>>
      rpcs == IF IsDistributed(options) THEN dist.rpcs ELSE 0
      new_cmeta == <<ConsensusMetadata(config[1], kMinimumTerm)>>
      setup == SetupTablet(new_cmeta, failAt)
  IN  IF tmeta # <<>>
        THEN [boot |-> BootResult("CreateNew", Status("AlreadyPresent", "Tablet already exists"),
                                  0, 0, NotSetUp),
              tablet_peer_ |-> nullptr, tablet_meta |-> tmeta, consensus_meta |-> cmeta]
      ELSE IF config = <<>>
        THEN [boot |-> BootResult("CreateNew",
                                  Status(dist.status.code,
                                         "Failed to create new distributed Raft config: "
                                         \o dist.status.msg),
                                  0, rpcs, NotSetUp),
              tablet_peer_ |-> nullptr, tablet_meta |-> tmeta, consensus_meta |-> cmeta]
      ELSE [boot |-> BootResult("CreateNew", setup.status, 0, rpcs, setup),
            tablet_peer_ |-> setup.tablet_peer_,
            tablet_meta |-> metadata, consensus_meta |-> new_cmeta]

\* CreateNew(fs_manager): the boot result, the tablet peer and the tablet and
\* consensus metadata on disk.  TabletMetadata::CreateNew refuses a tablet
\* that exists.
CreateNewOutcome(options, tmeta, cmeta, uuid, discovered, failAt) ==
  LET metadata == <<TabletMetadata(BuildTableSchema)>>
      dist == CreateDistributedConfig(options, discovered)
      config == IF IsDistributed(options) THEN dist.config ELSE <<LocalConfig(uuid)>>
      rpcs == IF IsDistributed(options) THEN dist.rpcs ELSE 0
      new_cmeta == <<ConsensusMetadata(config[1], kMinimumTerm)>>
      setup == SetupTablet(new_cmeta, failAt)
  IN  IF tmeta # <<>>
        THEN [boot |-> BootResult("CreateNew", Status("AlreadyPresent", "Tablet already exists"),
                                  0, 0, NotSetUp),
              tablet_peer_ |-> nullptr, tablet_meta |-> tmeta, consensus_meta |-> cmeta]
      ELSE IF config = <<>>
        THEN [boot |-> BootResult("CreateNew",
                                  Status(dist.status.code,
                                         "Failed to create new distributed Raft config: "
                                         \o dist.status.msg),
                                  0, rpcs, NotSetUp),
              tablet_peer_ |-> nullptr, tablet_meta |-> metadata, consensus_meta |-> cmeta]
      ELSE [boot |-> BootResult("CreateNew", setup.status, 0, rpcs, setup),
            tablet_peer_ |-> setup.tablet_peer_,
            tablet_meta |-> metadata, consensus_meta |-> new_cmeta]

\* What the first rpcs discovery RPCs of CreateDistributedConfig answered:
\* the uuid of the master at each configured address, or Unreachable.
DiscoveryAnswers(options, discovered, rpcs) ==
  [i \in 1..rpcs |-> discovered[options.master_addresses[i].host]]

\* The state of a master after a first boot that succeeded.
FirstBoot(options) ==
  CreateNewOutcome(options, <<>>, <<>>, UuidOf(LocalMaster), [h \in Masters |-> UuidOf(h)], NoFailure)

VARIABLES
  config,      \* the masters of the committed Raft configuration
  role,        \* role[m]: the consensus role of master m
  tablet,      \* tablet[m]: the rows of m's catalog tablet
  committed,   \* how many write requests have been appended to the replicated log
  wlog,        \* the replicated log: the committed write requests, in order, that
               \* some master of the configuration has still to apply
  applied,     \* applied[m]: how many entries of wlog m has applied
  pc,          \* pc[m]: "idle", or "waiting" inside SyncWrite on the latch
  acts,        \* acts[m]: the Actions of m's latest Write call
  req,         \* req[m]: the row operations of the request that call built
  inflight,    \* inflight[m]: transactions submitted to m's tablet peer, not completed
  latch,       \* latch[m]: the count of SyncWrite's CountDownLatch
  resp,        \* resp[m]: the WriteResponsePB of the latest call
  ret,         \* ret[m]: the status the latest Write call returned
  calls,       \* Write calls issued so far
  submitted,   \* write transactions submitted to a tablet peer so far
  opApplied,   \* opApplied[m][i]: times operation i of req[m] took effect on m's tablet
  FLAGS_sys_catalog_fail_during_write,  \* the fault-injection fraction, in hundredths
  visited      \* visited[m]: what the latest visitor scan since the last Write handed over

writeVars == <<config, role, tablet, committed, wlog, applied, pc, acts, req, inflight, latch,
               resp, ret, calls, submitted, opApplied,
               FLAGS_sys_catalog_fail_during_write, visited>>

VARIABLES
  opts,            \* the MasterOptions this master was started with
  tablet_meta,     \* on disk: the tablet metadata of the catalog tablet, if any
  consensus_meta,  \* on disk: its consensus metadata, if any
  tablet_peer_,    \* the tablet peer of the running master, if any
  boot,            \* the boot call this master has made since it started, and its outcome
  created,         \* the options of the CreateNew that succeeded, if any
  discovered_uuids \* what the discovery RPCs of the latest CreateNew answered, in order

bootVars == <<opts, tablet_meta, consensus_meta, tablet_peer_, boot, created,
              discovered_uuids>>

VARIABLES
  appliedWrites,   \* appliedWrites[m]: the write requests replica m of a replicated
                   \* configuration has applied, in order
  clientWrites     \* the write requests client threads have sent to the leader and
                   \* that it has still to commit

replVars == <<appliedWrites, clientWrites>>

\* The replicas of a configuration that replicates: more than one master.
ReplicasOf(cfg) == IF Cardinality(cfg) > 1 THEN cfg ELSE {}

\* Replica m has applied the write txn.
Recorded(writes, m, txn) ==
  [n \in DOMAIN writes |-> IF n = m THEN Append(writes[n], txn) ELSE writes[n]]

VARIABLES
  pending,         \* pending[m]: state-change notifications of the catalog tablet the
                   \* consensus engine has posted for master m's handler
  leader_cb_runs,  \* leader_cb_runs[m]: runs of leader_cb_ on m since m's role last changed
  changes,         \* changes of the consensus state so far
  lifecycle,       \* lifecycle[m]: "starting" (tablet peer set up, consensus not yet
                   \* running), "running", "closing" (the catalog manager has shut down),
                   \* "stopped" (Shutdown has shut the tablet peer down) or "aborted"
  wait,            \* wait[m]: where master m is in WaitUntilRunning
  handled          \* handled[m]: what SysCatalogStateChanged did with the last
                   \* notification it handled on m

electVars == <<pending, leader_cb_runs, changes, lifecycle, wait, handled>>

\* SysCatalogStateChanged has handled no notification yet.
NotHandled == [consensus |-> FALSE, ran |-> FALSE, s |-> NotCalled, aborted |-> FALSE,
               returned |-> FALSE]

\* WaitUntilRunning has not been called.
NotWaiting == [pc |-> "idle", seconds_waited |-> 0, status |-> NotCalled, ret |-> NotCalled]

\* WaitUntilRunning has been called and is about to poll for the first time.
Waiting == [pc |-> "polling", seconds_waited |-> 0, status |-> NotCalled, ret |-> NotCalled]

\* No change of the consensus state has happened yet.
InitStateChanges ==
  /\ pending = [m \in Masters |-> 0]
  /\ leader_cb_runs = [m \in Masters |-> 0]
  /\ handled = [m \in Masters |-> NotHandled]
  /\ changes = 0

\* Every master is in the lifecycle state given, and in WaitUntilRunning as w says.
InitLifecycle(state, w) ==
  /\ lifecycle = [m \in Masters |-> state]
  /\ wait = [m \in Masters |-> w]

\* A master that has booted for the first time with the given options.
InitBooted(options) ==
  /\ opts = options
  /\ tablet_meta = FirstBoot(options).tablet_meta
  /\ consensus_meta = FirstBoot(options).consensus_meta
  /\ tablet_peer_ = FirstBoot(options).tablet_peer_
  /\ boot = FirstBoot(options).boot
  /\ created = <<options>>
  /\ discovered_uuids = DiscoveryAnswers(options, [h \in Masters |-> UuidOf(h)],
                                         FirstBoot(options).boot.rpcs)

\* The options of a master of the configuration cfg.
OptionsOf(cfg) ==
  LET hosts == SelectSeq(HostOrder, LAMBDA h : h \in cfg)
  IN  MasterOptions(IF Len(hosts) = 1 THEN <<>>
                    ELSE [i \in 1..Len(hosts) |-> HostPortOf(hosts[i])])

NotVisited == [kind |-> "none", calls |-> <<>>, returns |-> <<>>, status |-> NotCalled]
FaultFractions == {0, 100}
FaultDraws == {0, 99}

InitWritePath(cfg, leader) ==
  /\ config = cfg
  /\ role = [m \in Masters |->
               IF m \notin cfg THEN "NON_PARTICIPANT"
               ELSE IF m = leader THEN "LEADER" ELSE "FOLLOWER"]
  /\ tablet = [m \in Masters |-> {}]
  /\ committed = 0
  /\ wlog = <<>>
  /\ applied = [m \in Masters |-> 0]
  /\ appliedWrites = [m \in ReplicasOf(cfg) |-> <<>>]
  /\ clientWrites = {}
  /\ InitStateChanges
  /\ pc = [m \in Masters |-> "idle"]
  /\ acts = [m \in Masters |-> EmptyActions]
  /\ req = [m \in Masters |-> <<>>]
  /\ inflight = [m \in Masters |-> <<>>]
  /\ latch = [m \in Masters |-> 0]
  /\ resp = [m \in Masters |-> NoResponse]
  /\ ret = [m \in Masters |-> NotCalled]
  /\ calls = 0
  /\ submitted = 0
  /\ opApplied = [m \in Masters |-> <<>>]
  /\ FLAGS_sys_catalog_fail_during_write = 0
  /\ visited = [m \in Masters |-> NotVisited]

\* The log keeps the entries above the lowest index every master of the
\* configuration has applied; entry number n (from 1) of the log so kept.
MinApplied(app, cfg) == CHOOSE n \in {app[m] : m \in cfg} : \A m \in cfg : n <= app[m]

Retained(log, cmt, app, cfg) ==
  LET keep == cmt - MinApplied(app, cfg)
  IN  SubSeq(log, Len(log) - keep + 1, Len(log))

\* The newest entry of the log, whatever the number asked for.
LogEntry_Latest(log, cmt, n) == log[Len(log)]

LogEntry(log, cmt, n) == log[n - (cmt - Len(log))]

\* TabletPeer::SubmitWrite: a tablet peer that is not running (not yet, or
\* shut down) takes no transaction.
kSubmitFailed == Status("IllegalState", "tablet peer is not running")

SubmitWrite(state) == IF state \in {"running", "closing"} THEN StatusOK ELSE kSubmitFailed

\* SyncWrite waiting on the latch whatever SubmitWrite returned.
WaitsOnLatch_Always(submit_status) == TRUE

\* RETURN_NOT_OK(tablet_peer_->SubmitWrite(...)): SyncWrite goes on to
\* latch.Wait() only when the transaction was submitted.
WaitsOnLatch(submit_status) == submit_status = StatusOK

\* The outcomes the fault hook of SyncWrite can have under the current flag.
FaultOutcomes ==
  {SyncWriteFaults(FLAGS_sys_catalog_fail_during_write, d) : d \in FaultDraws}

\* Write(actions) on master m, up to the point where SyncWrite returns the
\* injected failure (fault) or blocks on the latch.
WriteCall(m, actions, fault) ==
  /\ m \in config
  /\ pc[m] = "idle"
  /\ calls < MaxWrites
  /\ calls' = calls + 1
  /\ acts' = [acts EXCEPT ![m] = actions]
  /\ req' = [req EXCEPT ![m] = WriteRowOperations(actions)]
  /\ resp' = [resp EXCEPT ![m] = NoResponse]
  /\ opApplied' = [opApplied EXCEPT ![m] = [i \in 1..Len(req'[m]) |-> 0]]
  /\ visited' = [visited EXCEPT ![m] = NotVisited]
  /\ IF fault
       THEN /\ ret' = [ret EXCEPT ![m] = Status("RuntimeError", kInjectedFailureStatusMsg)]
            /\ UNCHANGED <<pc, inflight, latch, submitted>>
       ELSE /\ IF SubmitWrite(lifecycle[m]) = StatusOK
                 THEN /\ inflight' = [inflight EXCEPT ![m] = @ \o SyncWriteSubmits(req'[m])]
                      /\ submitted' = submitted + Len(SyncWriteSubmits(req'[m]))
                 ELSE UNCHANGED <<inflight, submitted>>
            /\ IF WaitsOnLatch(SubmitWrite(lifecycle[m]))
                 THEN /\ latch' = [latch EXCEPT ![m] = 1]
                      /\ pc' = [pc EXCEPT ![m] = "waiting"]
                      /\ ret' = [ret EXCEPT ![m] = NotCalled]
                 ELSE /\ ret' = [ret EXCEPT ![m] = SubmitWrite(lifecycle[m])]
                      /\ UNCHANGED <<pc, latch>>
  /\ UNCHANGED <<config, role, tablet, committed, wlog, applied, FLAGS_sys_catalog_fail_during_write>>
  /\ UNCHANGED <<bootVars, replVars, electVars>>

\* The tablet peer of m completes its oldest submitted transaction: a request
\* whose row operations cannot be decoded fails before anything is replicated
\* or applied; a replica that is not the leader rejects it; the leader replicates it, applies its row
\* operations in order, and the completion callback fills the response and
\* releases the latch.
TxnComplete(m) ==
  /\ inflight[m] # <<>>
  /\ LET txn == Head(inflight[m])
         out == ApplyRowOps(tablet[m], txn)
     IN  IF ~CanDecode(txn) \/ role[m] # "LEADER"
           THEN /\ resp' = [resp EXCEPT ![m] =
                      [has_error |-> TRUE,
                       error |-> IF ~CanDecode(txn)
                                   THEN Status("InvalidArgument", kDecodeFailedMsg)
                                   ELSE Status("IllegalState", kNotLeaderMsg),
                       per_row_errors |-> <<>>]]
                /\ UNCHANGED <<tablet, committed, wlog, applied, opApplied, appliedWrites>>
           ELSE /\ committed' = committed + 1
                /\ applied' = [applied EXCEPT ![m] = committed']
                /\ wlog' = Retained(Append(wlog, txn), committed', applied', config)
                /\ tablet' = [tablet EXCEPT ![m] = out.rows]
                /\ appliedWrites' = Recorded(appliedWrites, m, txn)
                /\ opApplied' = [opApplied EXCEPT ![m] =
                      [i \in 1..Len(@) |->
                         IF i <= Len(txn) /\ out.results[i].code = "OK"
                           THEN @[i] + 1 ELSE @[i]]]
                /\ resp' = [resp EXCEPT ![m] =
                      [has_error |-> FALSE, error |-> StatusOK,
                       per_row_errors |-> PerRowErrors(out.results, 0)]]
  /\ inflight' = [inflight EXCEPT ![m] = Tail(@)]
  /\ latch' = [latch EXCEPT ![m] = 0]
  /\ UNCHANGED <<config, role, pc, acts, req, ret, calls, submitted,
                 FLAGS_sys_catalog_fail_during_write, visited>>
  /\ UNCHANGED <<bootVars, clientWrites, electVars>>

\* SyncWrite on m wakes from the latch and Write returns its status.
WriteReturn(m) ==
  /\ pc[m] = "waiting"
  /\ latch[m] = 0
  /\ ret' = [ret EXCEPT ![m] = SyncWriteStatus(resp[m])]
  /\ pc' = [pc EXCEPT ![m] = "idle"]
  /\ UNCHANGED <<config, role, tablet, committed, wlog, applied, acts, req, inflight, latch, resp,
                 calls, submitted, opApplied, FLAGS_sys_catalog_fail_during_write, visited>>
  /\ UNCHANGED <<bootVars, replVars, electVars>>

\* A follower applies the next committed entry of the log.
FollowerApply(m) ==
  /\ m \in config
  /\ role[m] = "FOLLOWER"
  /\ applied[m] < committed
  /\ applied' = [applied EXCEPT ![m] = @ + 1]
  /\ tablet' = [tablet EXCEPT ![m] =
                  ApplyRowOps(@, LogEntry(wlog, committed, applied[m] + 1)).rows]
  /\ appliedWrites' = Recorded(appliedWrites, m, LogEntry(wlog, committed, applied[m] + 1))
  /\ wlog' = Retained(wlog, committed, applied', config)
  /\ UNCHANGED <<config, role, committed, pc, acts, req, inflight, latch, resp, ret, calls,
                 submitted, opApplied, FLAGS_sys_catalog_fail_during_write, visited>>
  /\ UNCHANGED <<bootVars, clientWrites, electVars>>

\* A replica takes the replication request for entry n of the log when n is
\* the entry after the last one it has applied.
ReplicaAccepts_Any(last, n) == TRUE

ReplicaAccepts(last, n) == n = last + 1

\* Follower m receives the replication request for entry n of the log: the
\* next entry, an entry it has applied (the request was sent again) or a later
\* entry (the request for an earlier one is delayed).
UpdateReplica(m, n) ==
  /\ m \in config
  /\ role[m] = "FOLLOWER"
  /\ n \in (committed - Len(wlog) + 1)..committed
  /\ IF ReplicaAccepts(applied[m], n)
       THEN /\ applied' = [applied EXCEPT ![m] = n]
            /\ tablet' = [tablet EXCEPT ![m] = ApplyRowOps(@, LogEntry(wlog, committed, n)).rows]
            /\ appliedWrites' = Recorded(appliedWrites, m, LogEntry(wlog, committed, n))
            /\ wlog' = Retained(wlog, committed, applied', config)
       ELSE UNCHANGED <<applied, tablet, appliedWrites, wlog>>
  /\ UNCHANGED <<config, role, committed, pc, acts, req, inflight, latch, resp, ret, calls,
                 submitted, opApplied, FLAGS_sys_catalog_fail_during_write, visited>>
  /\ UNCHANGED <<bootVars, clientWrites, electVars>>

\* A client thread sends the write request of one insert to the leader, as
\* InsertTestRowsRemoteThread does, without waiting for the requests of the
\* other threads.
ClientWrite(request) ==
  /\ calls < MaxWrites
  /\ calls' = calls + 1
  /\ request \notin clientWrites
  /\ clientWrites' = clientWrites \cup {request}
  /\ UNCHANGED <<config, role, tablet, committed, wlog, applied, pc, acts, req, inflight,
                 latch, resp, ret, submitted, opApplied,
                 FLAGS_sys_catalog_fail_during_write, visited>>
  /\ UNCHANGED <<bootVars, appliedWrites, electVars>>

\* The leader m commits one of the requests the client threads have sent, in
\* whatever order consensus takes them, and applies it.
ClientTxnComplete(m, request) ==
  /\ role[m] = "LEADER"
  /\ request \in clientWrites
  /\ clientWrites' = clientWrites \ {request}
  /\ committed' = committed + 1
  /\ applied' = [applied EXCEPT ![m] = committed']
  /\ wlog' = Retained(Append(wlog, request), committed', applied', config)
  /\ tablet' = [tablet EXCEPT ![m] = ApplyRowOps(@, request).rows]
  /\ appliedWrites' = Recorded(appliedWrites, m, request)
  /\ UNCHANGED <<config, role, pc, acts, req, inflight, latch, resp, ret, calls,
                 submitted, opApplied, FLAGS_sys_catalog_fail_during_write, visited>>
  /\ UNCHANGED <<bootVars, electVars>>

VisitTables(m) ==
  /\ m \in config
  /\ pc[m] = "idle"
  /\ visited' = [visited EXCEPT ![m] =
                   [kind |-> "tables", calls |-> VisitTablesCalls(tablet[m]),
                    returns |-> [i \in 1..Len(VisitTablesCalls(tablet[m])) |-> StatusOK],
                    status |-> StatusOK]]
  /\ UNCHANGED <<config, role, tablet, committed, wlog, applied, pc, acts, req, inflight, latch,
                 resp, ret, calls, submitted, opApplied,
                 FLAGS_sys_catalog_fail_during_write>>
  /\ UNCHANGED <<bootVars, replVars, electVars>>

VisitTablets(m) ==
  /\ m \in config
  /\ pc[m] = "idle"
  /\ visited' = [visited EXCEPT ![m] =
                   [kind |-> "tablets", calls |-> VisitTabletsCalls(tablet[m]),
                    returns |-> [i \in 1..Len(VisitTabletsCalls(tablet[m])) |-> StatusOK],
                    status |-> StatusOK]]
  /\ UNCHANGED <<config, role, tablet, committed, wlog, applied, pc, acts, req, inflight, latch,
                 resp, ret, calls, submitted, opApplied,
                 FLAGS_sys_catalog_fail_during_write>>
  /\ UNCHANGED <<bootVars, replVars, electVars>>

\* A test sets the hidden fault-injection flag.
SetFaultFraction(f) ==
  /\ FLAGS_sys_catalog_fail_during_write # f
  /\ FLAGS_sys_catalog_fail_during_write' = f
  /\ UNCHANGED <<config, role, tablet, committed, wlog, applied, pc, acts, req, inflight, latch,
                 resp, ret, calls, submitted, opApplied, visited>>
  /\ UNCHANGED <<bootVars, replVars, electVars>>

vars == <<writeVars, bootVars, replVars, electVars>>

(***************************************************************************)
(* Spec: one master in non-distributed mode (a single-peer configuration   *)
(* of which it is the leader) writing and scanning its catalog.            *)
(***************************************************************************)
Init ==
  /\ InitWritePath({LocalMaster}, LocalMaster)
  /\ InitLifecycle("running", NotWaiting)
  /\ InitBooted(OptionsOf({LocalMaster}))

Next ==
  \/ \E a \in ActionsSet, fault \in FaultOutcomes : WriteCall(LocalMaster, a, fault)
  \/ TxnComplete(LocalMaster)
  \/ WriteReturn(LocalMaster)
  \/ VisitTables(LocalMaster)
  \/ VisitTablets(LocalMaster)
  \/ \E f \in FaultFractions : SetFaultFraction(f)

Spec == Init /\ [][Next]_vars


(***************************************************************************)
(* SpecReq: the request Write builds, as a function of its Actions.  Init  *)
(* draws the Actions; the one action encodes the row operations.           *)
(***************************************************************************)
ReqActionsSet(n) == ActionsWith(Tables, Tablets, n)

InitReq ==
  /\ config = {LocalMaster}
  /\ role = [m \in Masters |-> IF m = LocalMaster THEN "LEADER" ELSE "NON_PARTICIPANT"]
  /\ tablet = [m \in Masters |-> {}]
  /\ committed = 0
  /\ wlog = <<>>
  /\ applied = [m \in Masters |-> 0]
  /\ appliedWrites = [m \in ReplicasOf(config) |-> <<>>]
  /\ clientWrites = {}
  /\ InitStateChanges
  /\ pc = [m \in Masters |-> "idle"]
  /\ acts \in {[m \in Masters |-> IF m = LocalMaster THEN a ELSE EmptyActions] :
                 a \in ReqActionsSet(MaxReqOps)}
  /\ req = [m \in Masters |-> <<>>]
  /\ inflight = [m \in Masters |-> <<>>]
  /\ latch = [m \in Masters |-> 0]
  /\ resp = [m \in Masters |-> NoResponse]
  /\ ret = [m \in Masters |-> NotCalled]
  /\ calls = 0
  /\ submitted = 0
  /\ opApplied = [m \in Masters |-> <<>>]
  /\ FLAGS_sys_catalog_fail_during_write = 0
  /\ visited = [m \in Masters |-> NotVisited]
  /\ InitLifecycle("running", NotWaiting)
  /\ InitBooted(OptionsOf({LocalMaster}))

\* Write encodes the row operations of its Actions into the request.
EncodeRequest(m) ==
  /\ calls = 0
  /\ calls' = 1
  /\ req' = [req EXCEPT ![m] = WriteRowOperations(acts[m])]
  /\ UNCHANGED <<config, role, tablet, committed, wlog, applied, pc, acts, inflight,
                 latch, resp, ret, submitted, opApplied,
                 FLAGS_sys_catalog_fail_during_write, visited>>
  /\ UNCHANGED <<bootVars, replVars, electVars>>

NextReq == EncodeRequest(LocalMaster)

SpecReq == InitReq /\ [][NextReq]_vars

(***************************************************************************)
(* SpecRepl: the masters of a distributed configuration, one of them the   *)
(* leader.  Any of them may be handed a write of at most one row operation *)
(* (as the integration test does with a single INSERT); the followers      *)
(* apply the writes the leader committed.                                  *)
(***************************************************************************)
ReplActionsSet ==
  {a : a \in {b \in ActionsWith(Tables, WrittenTablets, 1) :
                 /\ NumOps(b) = 1
                 /\ (b.table_to_add # nullptr \/ b.table_to_update # nullptr
                     \/ b.tablets_to_add # <<>>)}}

\* The requests of the client threads: one insert each.
ClientRequests ==
  {WriteRowOperations(a) : a \in {b \in ReplActionsSet : b.table_to_update = nullptr}}

InitRepl ==
  /\ \E leader \in Masters : InitWritePath(Masters, leader)
  /\ InitLifecycle("running", NotWaiting)
  /\ InitBooted(OptionsOf(Masters))

NextRepl ==
  \/ \E m \in Masters, a \in ReplActionsSet, fault \in FaultOutcomes : WriteCall(m, a, fault)
  \/ \E m \in Masters : TxnComplete(m)
  \/ \E m \in Masters : WriteReturn(m)
  \/ \E m \in Masters : FollowerApply(m)
  \/ \E m \in Masters, n \in 1..MaxWrites : UpdateReplica(m, n)
  \/ \E request \in ClientRequests : ClientWrite(request)
  \/ \E m \in Masters, request \in ClientRequests : ClientTxnComplete(m, request)

SpecRepl == InitRepl /\ [][NextRepl]_vars

\* The leader sends a replication request again until the follower has taken
\* it: a follower that has an entry to apply applies it eventually.
SpecReplFair == SpecRepl /\ \A m \in Masters : WF_vars(FollowerApply(m))

(***************************************************************************)
(* SpecBoot: one master starting on its disk, by CreateNew or by Load,     *)
(* and restarting with the same or with other options.                     *)
(***************************************************************************)
InitBoot ==
  /\ InitWritePath({LocalMaster}, LocalMaster)
  /\ InitLifecycle("running", NotWaiting)
  /\ opts \in MasterOptionsSet
  /\ tablet_meta = <<>>
  /\ consensus_meta = <<>>
  /\ tablet_peer_ = nullptr
  /\ boot = NotBooted
  /\ created = <<>>
  /\ discovered_uuids = <<>>

\* The master calls CreateNew; the discovery RPCs and the steps of SetupTablet
\* have the given outcomes.
CreateNew(discovered, failAt) ==
  /\ boot.op = "none"
  /\ LET r == CreateNewOutcome(opts, tablet_meta, consensus_meta, UuidOf(LocalMaster),
                               discovered, failAt)
     IN  /\ boot' = r.boot
         /\ tablet_peer_' = r.tablet_peer_
         /\ tablet_meta' = r.tablet_meta
         /\ consensus_meta' = r.consensus_meta
         /\ created' = IF r.boot.status = StatusOK THEN <<opts>> ELSE created
         /\ discovered_uuids' = DiscoveryAnswers(opts, discovered, r.boot.rpcs)
  /\ UNCHANGED <<opts, writeVars, replVars, electVars>>

\* The master calls Load.
Load(failAt) ==
  /\ boot.op = "none"
  /\ LET r == LoadOutcome(opts, tablet_meta, consensus_meta, failAt)
     IN  /\ boot' = r.boot
         /\ tablet_peer_' = r.tablet_peer_
  /\ UNCHANGED <<opts, tablet_meta, consensus_meta, created, discovered_uuids,
                 writeVars, replVars, electVars>>

\* The master process stops and is started again with the given options.
Restart(options) ==
  /\ boot.op # "none"
  /\ opts' = options
  /\ boot' = NotBooted
  /\ tablet_peer_' = nullptr
  /\ discovered_uuids' = <<>>
  /\ UNCHANGED <<tablet_meta, consensus_meta, created, writeVars, replVars, electVars>>

\* The persisted schema of a stopped master gets a fourth column.
SchemaDrift ==
  /\ boot.op = "none"
  /\ tablet_meta # <<>>
  /\ tablet_meta[1].schema = BuildTableSchema
  /\ tablet_meta' = <<[tablet_meta[1] EXCEPT !.schema = DriftedSchema]>>
  /\ UNCHANGED <<opts, consensus_meta, tablet_peer_, boot, created, discovered_uuids,
                 writeVars, replVars, electVars>>

NextBoot ==
  \/ \E discovered \in DiscoveryOutcomes, failAt \in SetupFailures : CreateNew(discovered, failAt)
  \/ \E failAt \in SetupFailures : Load(failAt)
  \/ \E options \in MasterOptionsSet : Restart(options)
  \/ SchemaDrift

SpecBoot == InitBoot /\ [][NextBoot]_vars

(***************************************************************************)
(* The state-change handler, the election of the catalog leader and        *)
(* WaitUntilRunning.                                                       *)
(***************************************************************************)
\* The leader_uuid of a consensus state that has no leader.
NoLeader == ""

\* The committed consensus state of the catalog tablet: the uuids of its
\* configuration and the uuid of its leader.
ConsensusState(cfg, roles) ==
  [config |-> {UuidOf(m) : m \in cfg},
   leader_uuid |-> IF \E m \in cfg : roles[m] = "LEADER"
                   THEN UuidOf(CHOOSE m \in cfg : roles[m] = "LEADER")
                   ELSE NoLeader]

\* The role of the peer permanent_uuid in the consensus state cstate.
GetConsensusRole(permanent_uuid, cstate) ==
  IF cstate.leader_uuid = permanent_uuid THEN "LEADER"
  ELSE IF permanent_uuid \in cstate.config THEN "FOLLOWER"
  ELSE "NON_PARTICIPANT"

\* The handler runs the callback whatever the role.
RunsLeaderCb_Always(new_role) == TRUE

\* The handler runs leader_cb_ if this master's role is leader.
RunsLeaderCb(new_role) == new_role = "LEADER"

\* The statuses leader_cb_ can return.
LeaderCbStatuses == {StatusOK, Status("ServiceUnavailable", "catalog manager is shutting down")}

\* shared_consensus() of the tablet peer of a master: null once the peer is shut down.
HasConsensus(state) == state \in {"running", "closing"}

\* catalog_manager()->IsInitialized().
IsInitialized(state) == state \in {"starting", "running"}

\* The handler using the consensus handle without the test for null: the
\* process dies on the null handle.
StateChangedOutcome_NoHandleCheck(state, cstate_role, s) ==
  IF ~HasConsensus(state) THEN [ran |-> FALSE, aborted |-> TRUE]
  ELSE IF RunsLeaderCb(cstate_role)
       THEN [ran |-> TRUE, aborted |-> s # StatusOK /\ IsInitialized(state)]
       ELSE [ran |-> FALSE, aborted |-> FALSE]

\* The handler with a CHECK that does not look at the catalog manager.
StateChangedOutcome_AlwaysFatal(state, cstate_role, s) ==
  IF ~HasConsensus(state) THEN [ran |-> FALSE, aborted |-> FALSE]
  ELSE IF RunsLeaderCb(cstate_role)
       THEN [ran |-> TRUE, aborted |-> s # StatusOK]
       ELSE [ran |-> FALSE, aborted |-> FALSE]

\* What SysCatalogStateChanged does on a master in the given lifecycle state
\* whose role in the committed consensus state is cstate_role, when leader_cb_
\* returns s: whether it ran the callback, and whether the CHECK aborted the
\* process.
StateChangedOutcome(state, cstate_role, s) ==
  IF ~HasConsensus(state) THEN [ran |-> FALSE, aborted |-> FALSE]
  ELSE IF RunsLeaderCb(cstate_role)
       THEN [ran |-> TRUE, aborted |-> s # StatusOK /\ IsInitialized(state)]
       ELSE [ran |-> FALSE, aborted |-> FALSE]

\* The masters whose consensus takes part in elections.
Voting == {m \in Masters : HasConsensus(lifecycle[m])}

\* The consensus state changed: every master whose consensus runs is notified.
Notified(p) == [m \in Masters |-> IF m \in Voting THEN p[m] + 1 ELSE p[m]]

\* The roles after master m has lost the role of leader, if it had it.
Deposed(roles, m) == [roles EXCEPT ![m] = IF @ = "LEADER" THEN "FOLLOWER" ELSE @]

\* A majority of the configuration elects m, while the tablet has no leader.
ElectLeader(m) ==
  /\ changes < MaxStateChanges
  /\ m \in config /\ m \in Voting
  /\ 2 * Cardinality(Voting \cap config) > Cardinality(config)
  /\ \A n \in Masters : role[n] # "LEADER"
  /\ role' = [role EXCEPT ![m] = "LEADER"]
  /\ leader_cb_runs' = [leader_cb_runs EXCEPT ![m] = 0]
  /\ pending' = Notified(pending)
  /\ changes' = changes + 1
  /\ UNCHANGED <<lifecycle, wait, handled, bootVars, replVars>>
  /\ UNCHANGED <<config, tablet, committed, wlog, applied, pc, acts, req, inflight, latch,
                 resp, ret, calls, submitted, opApplied,
                 FLAGS_sys_catalog_fail_during_write, visited>>

\* The leader m steps down.
StepDown(m) ==
  /\ changes < MaxStateChanges
  /\ role[m] = "LEADER"
  /\ role' = Deposed(role, m)
  /\ leader_cb_runs' = [leader_cb_runs EXCEPT ![m] = 0]
  /\ pending' = Notified(pending)
  /\ changes' = changes + 1
  /\ UNCHANGED <<lifecycle, wait, handled, bootVars, replVars>>
  /\ UNCHANGED <<config, tablet, committed, wlog, applied, pc, acts, req, inflight, latch,
                 resp, ret, calls, submitted, opApplied,
                 FLAGS_sys_catalog_fail_during_write, visited>>

\* The consensus state changes and every role stays what it is (the leader
\* commits a configuration or the first operation of its term).
StateChange ==
  /\ changes < MaxStateChanges
  /\ \E m \in Masters : role[m] = "LEADER"
  /\ pending' = Notified(pending)
  /\ changes' = changes + 1
  /\ UNCHANGED <<leader_cb_runs, lifecycle, wait, handled, writeVars, bootVars, replVars>>

\* SysCatalogStateChanged on master m, for one notification; leader_cb_
\* returns s if it is run.
SysCatalogStateChanged(m, s) ==
  /\ pending[m] > 0
  /\ lifecycle[m] # "aborted"
  /\ pending' = [pending EXCEPT ![m] = @ - 1]
  /\ LET cstate == ConsensusState(config, role)
         new_role == GetConsensusRole(UuidOf(m), cstate)
         out == StateChangedOutcome(lifecycle[m], new_role, s)
     IN  /\ leader_cb_runs' = IF out.ran /\ ~out.aborted
                                THEN [leader_cb_runs EXCEPT ![m] = @ + 1]
                                ELSE IF out.aborted THEN [leader_cb_runs EXCEPT ![m] = 0]
                                ELSE leader_cb_runs
         /\ lifecycle' = IF out.aborted THEN [lifecycle EXCEPT ![m] = "aborted"] ELSE lifecycle
         /\ role' = IF out.aborted THEN Deposed(role, m) ELSE role
         /\ handled' = [handled EXCEPT ![m] =
                          [consensus |-> HasConsensus(lifecycle[m]),
                           ran |-> out.ran,
                           s |-> IF out.ran THEN s ELSE NotCalled,
                           aborted |-> out.aborted,
                           returned |-> ~out.aborted]]
  /\ UNCHANGED <<changes, wait, bootVars, replVars>>
  /\ UNCHANGED <<config, tablet, committed, wlog, applied, pc, acts, req, inflight, latch,
                 resp, ret, calls, submitted, opApplied,
                 FLAGS_sys_catalog_fail_during_write, visited>>

\* The catalog manager of master m shuts down: it is no longer initialized.
CatalogManagerShutdown(m) ==
  /\ lifecycle[m] = "running"
  /\ lifecycle' = [lifecycle EXCEPT ![m] = "closing"]
  /\ UNCHANGED <<pending, leader_cb_runs, changes, wait, handled, writeVars, bootVars, replVars>>

\* Shutdown on master m: the tablet peer, and its consensus, shut down.
Shutdown(m) ==
  /\ lifecycle[m] \in {"starting", "closing"}
  /\ lifecycle' = [lifecycle EXCEPT ![m] = "stopped"]
  /\ role' = Deposed(role, m)
  /\ leader_cb_runs' = [leader_cb_runs EXCEPT ![m] = 0]
  /\ UNCHANGED <<pending, changes, wait, handled, bootVars, replVars>>
  /\ UNCHANGED <<config, tablet, committed, wlog, applied, pc, acts, req, inflight, latch,
                 resp, ret, calls, submitted, opApplied,
                 FLAGS_sys_catalog_fail_during_write, visited>>

(***************************************************************************)
(* SpecElect: a freshly created cluster of masters, none of them leader    *)
(* yet.                                                                    *)
(***************************************************************************)
InitElect ==
  /\ InitWritePath(Masters, NoLeader)
  /\ InitLifecycle("running", NotWaiting)
  /\ InitBooted(OptionsOf(Masters))

NextElect ==
  \/ \E m \in Masters : ElectLeader(m)
  \/ \E m \in Masters : StepDown(m)
  \/ StateChange
  \/ \E m \in Masters, s \in LeaderCbStatuses : SysCatalogStateChanged(m, s)
  \/ \E m \in Masters : CatalogManagerShutdown(m)
  \/ \E m \in Masters : Shutdown(m)

SpecElect == InitElect /\ [][NextElect]_vars

\* An election timeout expires on some follower while the tablet has no
\* leader: a leader is elected eventually.
SpecElectFair == SpecElect /\ WF_vars(\E m \in Masters : ElectLeader(m))

(***************************************************************************)
(* WaitUntilRunning.                                                       *)
(***************************************************************************)
TimedOut == Status("TimedOut", "consensus is not running yet")

\* The statuses a tablet peer that has been shut down answers a poll with.
PollErrors ==
  {Status("IllegalState", "tablet peer is shut down"), Status("Aborted", "tablet peer failed")}

\* What WaitUntilConsensusRunning(1 s) of the tablet peer can return on a
\* master in the given lifecycle state.
WaitUntilConsensusRunning(state) ==
  IF state = "starting" THEN {TimedOut}
  ELSE IF HasConsensus(state) THEN {StatusOK}
  ELSE PollErrors

IsTimedOut(status) == status.code = "TimedOut"

\* The loop returns whatever status is not OK, a timed-out one too.
WaitUntilRunningTurn_ReturnsTimedOut(w, status) ==
  [pc |-> "returned", seconds_waited |-> w.seconds_waited + 1, status |-> status, ret |-> status]

\* The loop polling again after every status that is not OK.
WaitUntilRunningTurn_RetriesErrors(w, status) ==
  LET seconds_waited == IF w.seconds_waited < MaxPolls THEN w.seconds_waited + 1
                        ELSE w.seconds_waited
  IN  IF status = StatusOK
      THEN [pc |-> "returned", seconds_waited |-> seconds_waited, status |-> status,
            ret |-> StatusOK]
      ELSE [pc |-> "polling", seconds_waited |-> seconds_waited, status |-> status,
            ret |-> w.ret]

\* One turn of the loop of WaitUntilRunning, the poll answering status.
WaitUntilRunningTurn(w, status) ==
  LET seconds_waited == w.seconds_waited + 1
  IN  IF status = StatusOK
      THEN [pc |-> "returned", seconds_waited |-> seconds_waited, status |-> status,
            ret |-> StatusOK]
      ELSE IF IsTimedOut(status)
      THEN [pc |-> "polling", seconds_waited |-> seconds_waited, status |-> status,
            ret |-> w.ret]
      ELSE [pc |-> "returned", seconds_waited |-> seconds_waited, status |-> status,
            ret |-> status]

\* WaitUntilRunning on master m polls its tablet peer once more.  The polls
\* that time out are counted up to MaxPolls; the loop itself has no limit.
WaitUntilRunningPoll(m, status) ==
  /\ wait[m].pc = "polling"
  /\ IsTimedOut(status) => wait[m].seconds_waited < MaxPolls
  /\ lifecycle[m] # "aborted"
  /\ status \in WaitUntilConsensusRunning(lifecycle[m])
  /\ wait' = [wait EXCEPT ![m] = WaitUntilRunningTurn(@, status)]
  /\ UNCHANGED <<pending, leader_cb_runs, changes, lifecycle, handled, writeVars, bootVars, replVars>>

\* The consensus of master m's tablet peer, started by SetupTablet, is running.
ConsensusStarted(m) ==
  /\ lifecycle[m] = "starting"
  /\ lifecycle' = [lifecycle EXCEPT ![m] = "running"]
  /\ UNCHANGED <<pending, leader_cb_runs, changes, wait, handled, writeVars, bootVars, replVars>>

(***************************************************************************)
(* SpecWait: the masters of a cluster start; each has set its tablet peer  *)
(* up and waits in WaitUntilRunning, and may be shut down meanwhile.       *)
(***************************************************************************)
InitWait ==
  /\ InitWritePath(Masters, NoLeader)
  /\ InitLifecycle("starting", Waiting)
  /\ InitBooted(OptionsOf(Masters))

NextWait ==
  \/ \E m \in Masters : ConsensusStarted(m)
  \/ \E m \in Masters : CatalogManagerShutdown(m)
  \/ \E m \in Masters : Shutdown(m)
  \/ \E m \in Masters, status \in {StatusOK, TimedOut} \cup PollErrors :
        WaitUntilRunningPoll(m, status)

SpecWait == InitWait /\ [][NextWait]_vars

\* The thread in WaitUntilRunning keeps running: while the loop has not
\* returned it polls again.
SpecWaitFair ==
  SpecWait /\ \A m \in Masters :
               WF_vars(\E status \in {StatusOK, TimedOut} \cup PollErrors :
                          WaitUntilRunningPoll(m, status))

(***************************************************************************)
(* SpecVisit: one master in non-distributed mode adds or updates one table *)
(* or one tablet per Write, the tablet metadata in any of its encodings,   *)
(* and scans its catalog.                                                  *)
(***************************************************************************)
\* The table metadata records the master writes.
VisitTablePBs == TablePBs \cup {[name |-> "b"]}

\* A tablet of another table, in the old encoding and with other keys.
OtherLegacyPB == TabletPB("T2", FALSE, NoPartition, TRUE, "k3", TRUE, "k5")

\* The tablet metadata records the master writes: with the partition field
\* only, with the deprecated keys only, with both and with neither.
VisitTabletPBs == {ModernPB, LegacyPB, BothPB, NeitherPB, OtherLegacyPB}

VisitActionsSet ==
  {a : a \in {b \in UNION {ActionsOver(tinfo, sinfo, 1) :
                             tinfo \in [Tables -> VisitTablePBs],
                             sinfo \in [Tablets -> VisitTabletPBs]} :
                 /\ NumOps(b) = 1
                 /\ b.table_to_delete = nullptr
                 /\ b.tablets_to_delete = <<>>}}

NextVisit ==
  \/ \E a \in VisitActionsSet, fault \in FaultOutcomes : WriteCall(LocalMaster, a, fault)
  \/ TxnComplete(LocalMaster)
  \/ WriteReturn(LocalMaster)
  \/ VisitTables(LocalMaster)
  \/ VisitTablets(LocalMaster)

SpecVisit == Init /\ [][NextVisit]_vars


(***************************************************************************)
(* SpecTxn: SyncWrite handed a write request directly, as the integration  *)
(* test hands one to the leader: the requests Write builds, and requests   *)
(* holding row operations that cannot be decoded.                          *)
(***************************************************************************)
\* A row operation of no known type ("some gibberish!" in the test).
MalformedOp == RowOp("some gibberish!", TABLES_ENTRY, "T1", SerializeTable([name |-> "a"]))

TxnActionsSet ==
  {a : a \in {b \in ActionsWith(Tables, WrittenTablets, 1) : NumOps(b) <= MaxOps}}

TxnRequests ==
  LET built == {WriteRowOperations(a) : a \in TxnActionsSet}
  IN  built \cup {r \o <<MalformedOp>> : r \in built}
            \cup {<<MalformedOp>> \o r : r \in built}

\* SyncWrite(request) on master m, up to the point where it returns the
\* injected failure (fault) or blocks on the latch.
SyncWriteCall(m, request, fault) ==
  /\ m \in config
  /\ pc[m] = "idle"
  /\ calls < MaxWrites
  /\ calls' = calls + 1
  /\ acts' = [acts EXCEPT ![m] = EmptyActions]
  /\ req' = [req EXCEPT ![m] = request]
  /\ resp' = [resp EXCEPT ![m] = NoResponse]
  /\ opApplied' = [opApplied EXCEPT ![m] = [i \in 1..Len(request) |-> 0]]
  /\ visited' = [visited EXCEPT ![m] = NotVisited]
  /\ IF fault
       THEN /\ ret' = [ret EXCEPT ![m] = Status("RuntimeError", kInjectedFailureStatusMsg)]
            /\ UNCHANGED <<pc, inflight, latch, submitted>>
       ELSE /\ IF SubmitWrite(lifecycle[m]) = StatusOK
                 THEN /\ inflight' = [inflight EXCEPT ![m] = @ \o SyncWriteSubmits(request)]
                      /\ submitted' = submitted + Len(SyncWriteSubmits(request))
                 ELSE UNCHANGED <<inflight, submitted>>
            /\ IF WaitsOnLatch(SubmitWrite(lifecycle[m]))
                 THEN /\ latch' = [latch EXCEPT ![m] = 1]
                      /\ pc' = [pc EXCEPT ![m] = "waiting"]
                      /\ ret' = [ret EXCEPT ![m] = NotCalled]
                 ELSE /\ ret' = [ret EXCEPT ![m] = SubmitWrite(lifecycle[m])]
                      /\ UNCHANGED <<pc, latch>>
  /\ UNCHANGED <<config, role, tablet, committed, wlog, applied, FLAGS_sys_catalog_fail_during_write>>
  /\ UNCHANGED <<bootVars, replVars, electVars>>

NextTxn ==
  \/ \E r \in TxnRequests, fault \in FaultOutcomes : SyncWriteCall(LocalMaster, r, fault)
  \/ TxnComplete(LocalMaster)
  \/ WriteReturn(LocalMaster)
  \/ \E f \in FaultFractions : SetFaultFraction(f)
  \/ CatalogManagerShutdown(LocalMaster)
  \/ Shutdown(LocalMaster)

SpecTxn == Init /\ [][NextTxn]_vars


(***************************************************************************)
(* SpecScan: the scans of a catalog whose rows were written by requests    *)
(* handed to SyncWrite directly, some with a metadata column that is not a *)
(* serialized record, with visitors that fail at some call.                *)
(***************************************************************************)
MaxVisits == 2

\* A metadata column that cannot be parsed.
CorruptMetadata == <<<<"", "some gibberish!">>>>

ScanTables == Tables \cup {"T2"}

\* One insert per table and tablet id, with metadata that parses and with
\* metadata that does not.
ScanOps ==
  {RowOp("INSERT", TABLES_ENTRY, id, md) :
     id \in ScanTables, md \in {SerializeTable([name |-> "a"]), CorruptMetadata}}
  \cup {RowOp("INSERT", TABLETS_ENTRY, id, md) :
     id \in Tablets, md \in {SerializeTablet(ModernPB), CorruptMetadata}}

ScanRequests == {<<op1, op2>> : op1 \in ScanOps, op2 \in ScanOps}

\* VisitTables on master m with a visitor that fails at call number failAt.
VisitTablesWith(m, failAt) ==
  /\ m \in config
  /\ pc[m] = "idle"
  /\ visited' = [visited EXCEPT ![m] =
                   [kind |-> "tables",
                    calls |-> VisitScan(tablet[m], TABLES_ENTRY, failAt).calls,
                    returns |-> VisitScan(tablet[m], TABLES_ENTRY, failAt).returns,
                    status |-> VisitScan(tablet[m], TABLES_ENTRY, failAt).status]]
  /\ UNCHANGED <<config, role, tablet, committed, wlog, applied, pc, acts, req, inflight, latch,
                 resp, ret, calls, submitted, opApplied,
                 FLAGS_sys_catalog_fail_during_write>>
  /\ UNCHANGED <<bootVars, replVars, electVars>>

\* VisitTablets on master m with a visitor that fails at call number failAt.
VisitTabletsWith(m, failAt) ==
  /\ m \in config
  /\ pc[m] = "idle"
  /\ visited' = [visited EXCEPT ![m] =
                   [kind |-> "tablets",
                    calls |-> VisitScan(tablet[m], TABLETS_ENTRY, failAt).calls,
                    returns |-> VisitScan(tablet[m], TABLETS_ENTRY, failAt).returns,
                    status |-> VisitScan(tablet[m], TABLETS_ENTRY, failAt).status]]
  /\ UNCHANGED <<config, role, tablet, committed, wlog, applied, pc, acts, req, inflight, latch,
                 resp, ret, calls, submitted, opApplied,
                 FLAGS_sys_catalog_fail_during_write>>
  /\ UNCHANGED <<bootVars, replVars, electVars>>

NextScan ==
  \/ \E r \in ScanRequests, fault \in FaultOutcomes : SyncWriteCall(LocalMaster, r, fault)
  \/ TxnComplete(LocalMaster)
  \/ WriteReturn(LocalMaster)
  \/ \E failAt \in 0..MaxVisits : VisitTablesWith(LocalMaster, failAt)
  \/ \E failAt \in 0..MaxVisits : VisitTabletsWith(LocalMaster, failAt)

SpecScan == Init /\ [][NextScan]_vars

(***************************************************************************)
(* The order of the row operations of one request.                         *)
(***************************************************************************)
\* The place of a row operation in the order table add, table update, table
\* delete, tablet add, tablet update, tablet delete.
OpRank(op) ==
  (IF op.entry_type = TABLES_ENTRY THEN 0 ELSE 3)
  + (CASE op.type = "INSERT" -> 1 [] op.type = "UPDATE" -> 2 [] OTHER -> 3)

OpsOfRank(ops, k) == SelectSeq(ops, LAMBDA op : OpRank(op) = k)

\* The (id, metadata) pairs of a vector of TableInfo / TabletInfo, in vector
\* order; a delete carries the id only.
KeysOf(infos) == [i \in 1..Len(infos) |-> infos[i].id]
KeysAndTableMetadata(infos) ==
  [i \in 1..Len(infos) |-> <<infos[i].id, SerializeTable(infos[i].pb)>>]
KeysAndTabletMetadata(infos) ==
  [i \in 1..Len(infos) |-> <<infos[i].id, SerializeTablet(infos[i].pb)>>]
OpKeys(ops) == [i \in 1..Len(ops) |-> ops[i].entry_id]
OpKeysAndMetadata(ops) == [i \in 1..Len(ops) |-> <<ops[i].entry_id, ops[i].metadata>>]

RequestInOrder(actions, ops) ==
  /\ Len(ops) = NumOps(actions)
  /\ \A i, j \in 1..Len(ops) : i < j => OpRank(ops[i]) <= OpRank(ops[j])
  /\ OpKeysAndMetadata(OpsOfRank(ops, 1)) = KeysAndTableMetadata(actions.table_to_add)
  /\ OpKeysAndMetadata(OpsOfRank(ops, 2)) = KeysAndTableMetadata(actions.table_to_update)
  /\ OpKeys(OpsOfRank(ops, 3)) = KeysOf(actions.table_to_delete)
  /\ OpKeysAndMetadata(OpsOfRank(ops, 4)) = KeysAndTabletMetadata(actions.tablets_to_add)
  /\ OpKeysAndMetadata(OpsOfRank(ops, 5)) = KeysAndTabletMetadata(actions.tablets_to_update)
  /\ OpKeys(OpsOfRank(ops, 6)) = KeysOf(actions.tablets_to_delete)

\* C1: the row operations of the request Write builds from an Actions value
\* are, in this order, the table add, the table update, the table delete, the
\* tablet adds in vector order, the tablet updates in vector order and the
\* tablet deletes in vector order, and nothing else.
C1_RowOperationOrder ==
  calls = 1 => RequestInOrder(acts[LocalMaster], req[LocalMaster])

\* C1 witness: a request holding a table update and delete and two different
\* tablets added in the order S2, S1.
C1_Witness ==
  /\ calls = 1
  /\ Len(acts[LocalMaster].table_to_update) = 1
  /\ Len(acts[LocalMaster].table_to_delete) = 1
  /\ KeysOf(acts[LocalMaster].tablets_to_add) = <<"S2", "S1">>
  /\ Len(req[LocalMaster]) = 4


(***************************************************************************)
(* Write followed by a visitor scan.                                       *)
(***************************************************************************)
Elems(seq) == {seq[i] : i \in 1..Len(seq)}

AddedOrUpdatedTables(a) == Elems(a.table_to_add) \cup Elems(a.table_to_update)
AddedOrUpdatedTablets(a) == Elems(a.tablets_to_add) \cup Elems(a.tablets_to_update)
DeletedTableIds(a) == {t.id : t \in Elems(a.table_to_delete)}
DeletedTabletIds(a) == {t.id : t \in Elems(a.tablets_to_delete)}

\* Master m has returned OK from its latest Write and has scanned since.
ScannedAfterOK(m, kind) ==
  pc[m] = "idle" /\ ret[m] = StatusOK /\ visited[m].kind = kind

AppliedCounts(m) == Elems(opApplied[m])

FailedRows(m) == {resp[m].per_row_errors[k].row_index : k \in 1..Len(resp[m].per_row_errors)}

\* C3 as stated: in every state, of every submission either all the row
\* operations have been applied or none, and none more than once.
C3_Original ==
  \A m \in Masters : AppliedCounts(m) \subseteq {1} \/ AppliedCounts(m) \subseteq {0}

\* C3 (amended): no row operation of a submission is applied more than once;
\* a Write that returned OK has had every one of its row operations applied,
\* a Write that failed before or at submission (injected failure, RPC-level
\* error) none, and a Write that returned the per-row corruption error
\* exactly those without a per-row error.
C3_AtMostOnce ==
  \A m \in Masters :
    /\ AppliedCounts(m) \subseteq {0, 1}
    /\ pc[m] = "idle" /\ ret[m] = StatusOK => AppliedCounts(m) \subseteq {1}
    /\ pc[m] = "idle" /\ ret[m].code \in {"RuntimeError", "IllegalState"}
         => AppliedCounts(m) \subseteq {0}
    /\ pc[m] = "idle" /\ ret[m].code = "Corruption" =>
         \A i \in 1..Len(opApplied[m]) :
           opApplied[m][i] = (IF (i - 1) \in FailedRows(m) THEN 0 ELSE 1)

\* C3 witness: a Write of two row operations returned with one applied and
\* the other not.
C3_Witness ==
  /\ pc[LocalMaster] = "idle"
  /\ ret[LocalMaster].code = "Corruption"
  /\ opApplied[LocalMaster] \in {<<0, 1>>, <<1, 0>>}

\* The last row operation of ops, among those that took effect, on the key of
\* operation i is i itself.
LastEffectOnKey(ops, counts, i) ==
  \A j \in (i + 1)..Len(ops) :
    ~(counts[j] > 0 /\ ops[j].entry_type = ops[i].entry_type
                    /\ ops[j].entry_id = ops[i].entry_id)

EffectVisible(rows, op) ==
  IF op.type = "DELETE"
    THEN ~HasKey(rows, op.entry_type, op.entry_id)
    ELSE Row(op.entry_type, op.entry_id, op.metadata) \in rows

\* C4: when SyncWrite's response has no RPC-level error and at least one
\* per-row error, SyncWrite returns the one corruption error "One or more rows
\* failed to write", and the row operations of that submission that succeeded
\* are still in effect in the catalog.
C4_PartialFailure ==
  \A m \in Masters :
    (pc[m] = "idle" /\ ~resp[m].has_error /\ Len(resp[m].per_row_errors) > 0) =>
      /\ ret[m] = Status("Corruption", kRowsFailedMsg)
      /\ \A i \in 1..Len(req[m]) :
           (i - 1) \notin FailedRows(m) =>
             /\ opApplied[m][i] = 1
             /\ LastEffectOnKey(req[m], opApplied[m], i) => EffectVisible(tablet[m], req[m][i])

\* C4 witness: a Write whose table insert succeeded and whose tablet update
\* failed has returned, and the table row is in the catalog.
C4_Witness ==
  /\ pc[LocalMaster] = "idle"
  /\ ret[LocalMaster].code = "Corruption"
  /\ Len(req[LocalMaster]) = 2
  /\ FailedRows(LocalMaster) = {1}
  /\ req[LocalMaster][1].type = "INSERT"
  /\ HasKey(tablet[LocalMaster], TABLES_ENTRY, "T1")

\* C5: with the fault-injection fraction at 1.0, every Write call returns the
\* runtime error "INJECTED FAILURE" at once, leaves every catalog unchanged,
\* submits no write transaction and appends nothing to the replicated log.
C5_InjectedFailure ==
  [][(FLAGS_sys_catalog_fail_during_write = 100 /\ calls' = calls + 1) =>
       /\ \E m \in Masters :
            /\ ret'[m] = Status("RuntimeError", kInjectedFailureStatusMsg)
            /\ acts'[m] \in ActionsSet
            /\ \A o \in Masters \ {m} : ret'[o] = ret[o]
       /\ pc' = pc
       /\ tablet' = tablet
       /\ submitted' = submitted
       /\ inflight' = inflight
       /\ committed' = committed
       /\ wlog' = wlog]_vars

\* C5 witness: a Write called with the fraction at 1.0 on a catalog that
\* holds rows has returned the injected failure.
C5_Witness ==
  /\ FLAGS_sys_catalog_fail_during_write = 100
  /\ calls = 2
  /\ pc[LocalMaster] = "idle"
  /\ ret[LocalMaster] = Status("RuntimeError", kInjectedFailureStatusMsg)
  /\ acts[LocalMaster] # EmptyActions
  /\ tablet[LocalMaster] # {}
  /\ submitted = 1


(***************************************************************************)
(* Writes handed to a replica that is not the leader.                      *)
(***************************************************************************)
NotLeaderResponse ==
  [has_error |-> TRUE, error |-> Status("IllegalState", kNotLeaderMsg),
   per_row_errors |-> <<>>]

\* C10: a write submitted to a replica that is not the leader completes with
\* the illegal-state error "Replica is not leader of this quorum" and Write
\* returns it; completing it changes no replica's rows and appends nothing to
\* the replicated log, so that no replica ever applies it.
C10_NonLeaderRejected ==
  [][\A m \in Masters :
       /\ (role[m] # "LEADER" /\ Len(inflight'[m]) < Len(inflight[m])) =>
            /\ resp'[m] = NotLeaderResponse
            /\ tablet' = tablet
            /\ committed' = committed
            /\ wlog' = wlog
       /\ (role[m] # "LEADER" /\ pc[m] = "waiting" /\ pc'[m] = "idle") =>
            /\ ret'[m] = Status("IllegalState", kNotLeaderMsg)
            /\ opApplied'[m] = [i \in 1..Len(req[m]) |-> 0]
            /\ tablet' = tablet]_vars

\* C10 witness: a follower that holds a row the leader wrote has rejected an
\* insert handed to it, while the leader has committed one write only.
C10_Witness ==
  \E m \in Masters :
    /\ role[m] = "FOLLOWER"
    /\ pc[m] = "idle"
    /\ ret[m] = Status("IllegalState", kNotLeaderMsg)
    /\ Len(req[m]) = 1
    /\ req[m][1].type = "INSERT"
    /\ tablet[m] # {}
    /\ committed = 1
    /\ calls = 2

(***************************************************************************)
(* Load against the disk and the options.                                  *)
(***************************************************************************)
\* The persisted schema is the canonical one.
SchemaMatches == tablet_meta # <<>> /\ tablet_meta[1].schema = BuildTableSchema

\* The addresses of the options and of the persisted committed configuration,
\* as "host:port".
OptsAddrs ==
  {opts.master_addresses[i].host \o ":" \o ToString(opts.master_addresses[i].port) :
     i \in 1..Len(opts.master_addresses)}
DiskAddrs ==
  LET peers == consensus_meta[1].committed_config.peers
  IN  {peers[i].last_known_addr.host \o ":" \o ToString(peers[i].last_known_addr.port) :
         i \in 1..Len(peers)}

\* In distributed mode the persisted and the configured address sets are equal.
PeersMatch == IsDistributed(opts) => (consensus_meta # <<>> /\ DiskAddrs = OptsAddrs)

\* C6 as stated: Load succeeds if and only if the persisted schema equals the
\* canonical schema and, in distributed mode, the persisted and the
\* configured peer address sets are equal.
C6_Original ==
  boot.op = "Load" => (boot.status = StatusOK <=> (SchemaMatches /\ PeersMatch))

\* C6: Load invokes SetupTablet if and only if the persisted schema equals the
\* canonical schema and, in distributed mode, the consensus metadata loads and
\* the persisted and the configured peer address sets are equal; Load succeeds
\* if and only if, in addition, SetupTablet succeeds, and it returns the
\* status of SetupTablet whenever it invokes it.
C6_LoadSucceedsIff ==
  boot.op = "Load" =>
    /\ boot.setup_calls = 1 <=> (SchemaMatches /\ PeersMatch)
    /\ boot.status = StatusOK <=>
         (SchemaMatches /\ PeersMatch /\ boot.setup_status = StatusOK)
    /\ boot.setup_calls = 1 => boot.status = boot.setup_status

\* C6 witness: a distributed master whose options list the persisted
\* addresses in another order has loaded.
C6_Witness ==
  /\ boot.op = "Load"
  /\ boot.status = StatusOK
  /\ Len(opts.master_addresses) = kNumReplicas
  /\ created # <<>>
  /\ opts # created[1]
  /\ tablet_peer_ = <<"RUNNING">>

\* The addresses in exactly one of the two sets, and the message naming them
\* in order, separated by blanks.
DifferingAddrs == (OptsAddrs \ DiskAddrs) \cup (DiskAddrs \ OptsAddrs)
DifferingAddrsMsg ==
  "on-disk and provided master lists are different: "
  \o JoinStrings(SelectSeq(AddrOrder, LAMBDA a : a \in DifferingAddrs), " ")

RejectedForPeers ==
  /\ boot.status = Status("InvalidArgument", DifferingAddrsMsg)
  /\ boot.setup_calls = 0
  /\ boot.steps = <<>>
  /\ tablet_peer_ = nullptr

\* C7 as stated: in distributed mode, whenever the persisted and the
\* configured address sets differ, Load fails with invalid-argument naming
\* the symmetric difference and never invokes SetupTablet.
C7_Original ==
  (boot.op = "Load" /\ IsDistributed(opts) /\ consensus_meta # <<>> /\ DiskAddrs # OptsAddrs)
    => RejectedForPeers

\* C7: in distributed mode, when the persisted schema is the canonical one
\* and the persisted and the configured address sets differ, Load fails with
\* invalid-argument, its message lists exactly the addresses of the symmetric
\* difference of the two sets, SetupTablet is not invoked and no tablet peer
\* is constructed.
C7_PeerMismatchRejected ==
  (/\ boot.op = "Load" /\ IsDistributed(opts) /\ consensus_meta # <<>>
   /\ SchemaMatches /\ DiskAddrs # OptsAddrs)
    => RejectedForPeers

\* C7 witness: Load was rejected with one address only on disk and another
\* only in the options.
C7_Witness ==
  /\ boot.op = "Load"
  /\ boot.status.code = "InvalidArgument"
  /\ consensus_meta # <<>>
  /\ Len(consensus_meta[1].committed_config.peers) > 1
  /\ OptsAddrs \ DiskAddrs # {}
  /\ DiskAddrs \ OptsAddrs # {}
  /\ OptsAddrs \cap DiskAddrs # {}

\* C8: when the persisted schema differs from the canonical three-column
\* schema, Load fails with a corruption error, in local and in distributed
\* mode, without having read the consensus metadata or invoked SetupTablet.
C8_SchemaDriftRejected ==
  (boot.op = "Load" /\ tablet_meta # <<>> /\ tablet_meta[1].schema # BuildTableSchema)
    => /\ boot.status.code = "Corruption"
       /\ boot.cmeta_loads = 0
       /\ boot.setup_calls = 0
       /\ tablet_peer_ = nullptr
       /\ Len(BuildTableSchema) = 3

\* C8 witness: a distributed master with consensus metadata on disk and
\* a fourth column in its persisted schema has called Load.
C8_Witness ==
  /\ boot.op = "Load"
  /\ IsDistributed(opts)
  /\ consensus_meta # <<>>
  /\ tablet_meta # <<>>
  /\ Len(tablet_meta[1].schema) = 4
  /\ boot.status.code = "Corruption"

\* The same startup options: the same mode and the same addresses, in any order.
SameOptions(a, b) ==
  /\ Len(a.master_addresses) = Len(b.master_addresses)
  /\ \A hp \in MasterAddrs :
       Cardinality({i \in 1..Len(a.master_addresses) : a.master_addresses[i] = hp})
       = Cardinality({i \in 1..Len(b.master_addresses) : b.master_addresses[i] = hp})

\* A Load on the disk a successful CreateNew left, with the same options.
LoadAfterCreateNew ==
  /\ boot.op = "Load"
  /\ created # <<>>
  /\ SameOptions(opts, created[1])
  /\ SchemaMatches

\* C9 as stated: after a successful CreateNew, a restart that calls Load with
\* the same options succeeds.
C9_Original == LoadAfterCreateNew => boot.status = StatusOK

\* C9: after a successful CreateNew, a restart that calls Load with the same
\* options (the same mode and, in distributed mode, the same addresses in
\* any order) passes every check of Load and invokes SetupTablet; Load
\* returns the status of SetupTablet, so it succeeds exactly when SetupTablet
\* does.
C9_LoadAfterCreateNew ==
  LoadAfterCreateNew =>
    /\ boot.setup_calls = 1
    /\ boot.cmeta_loads = (IF IsDistributed(opts) THEN 1 ELSE 0)
    /\ boot.status = boot.setup_status
    /\ boot.status.code \notin {"Corruption", "InvalidArgument", "NotFound"}

\* C9 witness: a master created with three addresses has restarted with the
\* same addresses in another order and loaded.
C9_Witness ==
  /\ LoadAfterCreateNew
  /\ Len(opts.master_addresses) = kNumReplicas
  /\ opts.master_addresses # created[1].master_addresses
  /\ boot.status = StatusOK
  /\ boot.cmeta_loads = 1

(***************************************************************************)
(* Replication: the order of the applied writes and convergence.           *)
(***************************************************************************)
IsPrefix(s, t) == Len(s) <= Len(t) /\ SubSeq(t, 1, Len(s)) = s

\* C11: under every interleaving of the Write calls of the masters, the
\* concurrent requests of the client threads and the replication requests
\* (in order, sent again or delayed), the sequence of writes a replica has
\* applied is a prefix of the sequence the leader has applied, so that all
\* replicas apply the committed writes in one and the same order.
C11_SameTotalOrder ==
  \A l, m \in DOMAIN appliedWrites :
    role[l] = "LEADER" =>
      /\ IsPrefix(appliedWrites[m], appliedWrites[l])
      /\ Len(appliedWrites[l]) = committed
      /\ Len(appliedWrites[m]) = applied[m]

\* C11 witness: the leader has committed two different writes, the first of
\* them the request of a client thread; one follower has applied both and
\* another only the first.
C11_Witness ==
  \E l, f, g \in DOMAIN appliedWrites :
    /\ role[l] = "LEADER" /\ role[f] = "FOLLOWER" /\ role[g] = "FOLLOWER"
    /\ Len(appliedWrites[l]) = 2
    /\ appliedWrites[l][1] # appliedWrites[l][2]
    /\ appliedWrites[l][1] \in ClientRequests
    /\ appliedWrites[f] = appliedWrites[l]
    /\ Len(appliedWrites[g]) = 1
    /\ calls = MaxWrites

\* No write is in progress: no Write call is waiting, no transaction is
\* submitted and not completed, no client request is uncommitted.
WritersFinished ==
  /\ \A m \in Masters : pc[m] = "idle" /\ inflight[m] = <<>>
  /\ clientWrites = {}

\* Every follower holds the rows of the leader: as many, with the same contents.
FollowersMatchLeader ==
  \A l, m \in config :
    role[l] = "LEADER" =>
      /\ Cardinality(tablet[m]) = Cardinality(tablet[l])
      /\ tablet[m] = tablet[l]

\* C12: once all writers have finished and no further write is submitted
\* (from some point on no write is in progress), every follower eventually
\* holds exactly the rows of the leader, and keeps holding them.
C12_FollowersConverge == <>[]WritersFinished => <>[]FollowersMatchLeader

\* C12 witness: after two committed writes that both changed rows, with no
\* write in progress, both followers hold the two rows of the leader.
C12_Witness ==
  /\ WritersFinished
  /\ committed = 2
  /\ \E l \in config : role[l] = "LEADER" /\ Cardinality(tablet[l]) = 2
  /\ FollowersMatchLeader
  /\ \A m \in config : applied[m] = committed

\* C13: in a cluster of masters at most one master is the catalog leader in
\* every reachable state, and the elected-leader callback is never in effect
\* (run since the master's role last changed) on two masters at once; under
\* fairness of the election a freshly created cluster whose masters stay up
\* eventually has one leader and every other peer a follower.
Leaders == {m \in Masters : role[m] = "LEADER"}

CbInEffect == {m \in Masters : leader_cb_runs[m] > 0}

AllUp == \A m \in Masters : lifecycle[m] = "running"

\* What WaitForAndGetQuorum waits for: one leader, the other replicas followers.
QuorumFormed ==
  /\ Cardinality(Leaders) = 1
  /\ Cardinality({m \in Masters : role[m] = "FOLLOWER"}) = kNumReplicas - 1

C14_OncePerTransition ==
  [][\A m \in Masters :
        leader_cb_runs'[m] > leader_cb_runs[m]
          => role[m] = "LEADER" /\ leader_cb_runs[m] = 0]_vars

\* C15: WaitUntilRunning returns OK only when a poll of the tablet peer has
\* returned OK; it returns the first poll status that is neither OK nor
\* timed-out, unchanged; it never returns timed-out: after a timed-out poll
\* it has not returned and is about to poll again.
C15_WaitUntilRunning ==
  [][\A m \in Masters :
        wait'[m] # wait[m]
          => /\ wait[m].pc = "polling"
             /\ wait[m].status \in {NotCalled, TimedOut}
             /\ wait'[m].seconds_waited = wait[m].seconds_waited + 1
             /\ (wait'[m].status = StatusOK
                   <=> (wait'[m].pc = "returned" /\ wait'[m].ret = StatusOK))
             /\ (wait'[m].status \notin {StatusOK, TimedOut}
                   => wait'[m].pc = "returned" /\ wait'[m].ret = wait'[m].status)
             /\ (wait'[m].status = TimedOut
                   => wait'[m].pc = "polling" /\ wait'[m].ret = NotCalled)
             /\ wait'[m].ret # TimedOut]_vars

\* One master returned OK after a timed-out poll, another returned the error
\* of its second poll.
C15_Witness ==
  \E m, n \in Masters :
    /\ wait[m].pc = "returned" /\ wait[m].ret = StatusOK /\ wait[m].seconds_waited >= 2
    /\ wait[n].pc = "returned" /\ wait[n].ret \in PollErrors /\ wait[n].seconds_waited >= 2

\* C16: every tablet record handed to a tablet visitor has its partition
\* field set and neither of the deprecated start-key and end-key fields,
\* whatever the encoding of the stored row.
TabletCalls(m) == IF visited[m].kind = "tablets" THEN visited[m].calls ELSE <<>>

C16_PartitionOnly ==
  \A i \in 1..Len(TabletCalls(LocalMaster)) :
    LET metadata == TabletCalls(LocalMaster)[i].metadata
    IN  /\ metadata.has_partition
        /\ ~metadata.has_deprecated_start_key
        /\ ~metadata.has_deprecated_end_key

\* C17: round trip.  After a Write that adds the table T has returned OK, a
\* scan of the tables calls the visitor once with T's id and with metadata
\* equal to the metadata written; after a Write that adds the tablet S has
\* returned OK, a scan of the tablets calls the visitor once with S's id,
\* S's table_id and S's metadata after the upgrade of the deprecated fields
\* (the metadata written if it has a partition; otherwise the metadata with
\* the partition made of the deprecated keys, and without those keys).
UpgradedMetadata(pb) ==
  IF pb.has_partition THEN pb
  ELSE TabletPB(pb.table_id, TRUE,
                [partition_key_start |-> pb.deprecated_start_key,
                 partition_key_end |-> pb.deprecated_end_key],
                FALSE, "", FALSE, "")

WriteReturnedOK(m) == pc[m] = "idle" /\ ret[m] = StatusOK

TableCalls(m) == IF visited[m].kind = "tables" THEN visited[m].calls ELSE <<>>

C17_RoundTrip ==
  WriteReturnedOK(LocalMaster) =>
    /\ \A i \in 1..Len(acts[LocalMaster].table_to_add) :
         visited[LocalMaster].kind = "tables" =>
           LET T == acts[LocalMaster].table_to_add[i]
               calls_T == {j \in 1..Len(TableCalls(LocalMaster)) :
                             TableCalls(LocalMaster)[j].table_id = T.id}
           IN  /\ Cardinality(calls_T) = 1
               /\ \A j \in calls_T : TableCalls(LocalMaster)[j].metadata = T.pb
    /\ \A i \in 1..Len(acts[LocalMaster].tablets_to_add) :
         visited[LocalMaster].kind = "tablets" =>
           LET S == acts[LocalMaster].tablets_to_add[i]
               calls_S == {j \in 1..Len(TabletCalls(LocalMaster)) :
                             TabletCalls(LocalMaster)[j].tablet_id = S.id}
           IN  /\ Cardinality(calls_S) = 1
               /\ \A j \in calls_S :
                    /\ TabletCalls(LocalMaster)[j].table_id = S.pb.table_id
                    /\ TabletCalls(LocalMaster)[j].metadata = UpgradedMetadata(S.pb)

\* The second Write added a tablet of the table T2 in the old encoding, after
\* the first added another tablet; the scan has handed both over.
C17_Witness ==
  /\ WriteReturnedOK(LocalMaster)
  /\ Len(acts[LocalMaster].tablets_to_add) = 1
  /\ acts[LocalMaster].tablets_to_add[1].pb = OtherLegacyPB
  /\ Len(TabletCalls(LocalMaster)) = 2

\* C18: a Write whose table_to_add and table_to_delete name the same table,
\* not in the catalog before, returns OK and leaves no row of that table: the
\* insert is applied before the delete.  (The transaction completes with no
\* error and no row; the call then returns OK.)
AddAndDelete(a) ==
  /\ NumOps(a) = 2
  /\ Len(a.table_to_add) = 1 /\ Len(a.table_to_delete) = 1
  /\ a.table_to_add[1].id = a.table_to_delete[1].id

HasTable(rows, a) == HasKey(rows, TABLES_ENTRY, a.table_to_add[1].id)

C18_InsertThenDelete ==
  [][/\ (/\ AddAndDelete(acts[LocalMaster])
         /\ inflight[LocalMaster] # <<>> /\ inflight'[LocalMaster] = Tail(inflight[LocalMaster])
         /\ ~HasTable(tablet[LocalMaster], acts[LocalMaster]))
        => /\ ~HasTable(tablet'[LocalMaster], acts[LocalMaster])
           /\ tablet'[LocalMaster] = tablet[LocalMaster]
           /\ resp'[LocalMaster] = NoResponse
           /\ opApplied'[LocalMaster] = <<1, 1>>
     /\ (/\ AddAndDelete(acts[LocalMaster])
         /\ pc[LocalMaster] = "waiting" /\ pc'[LocalMaster] = "idle"
         /\ resp[LocalMaster] = NoResponse)
        => /\ ret'[LocalMaster] = StatusOK
           /\ ~HasTable(tablet'[LocalMaster], acts[LocalMaster])]_vars

\* The Write of T1 added and deleted has returned OK, on a catalog that holds
\* a tablet row and no row of T1.
C18_Witness ==
  /\ WriteReturnedOK(LocalMaster)
  /\ AddAndDelete(acts[LocalMaster])
  /\ opApplied[LocalMaster] = <<1, 1>>
  /\ ~HasTable(tablet[LocalMaster], acts[LocalMaster])
  /\ tablet[LocalMaster] # {}

\* C19: a Write whose Actions has every field empty (fault injection off)
\* builds a request with no row operation, submits it as one transaction,
\* returns OK, and leaves the rows of the catalog as they were.
C19_EmptyWrite ==
  [][/\ (/\ calls' = calls + 1
         /\ acts'[LocalMaster] = EmptyActions
         /\ FLAGS_sys_catalog_fail_during_write = 0)
        => /\ req'[LocalMaster] = <<>>
           /\ submitted' = submitted + 1
           /\ inflight'[LocalMaster] = Append(inflight[LocalMaster], <<>>)
           /\ pc'[LocalMaster] = "waiting"
           /\ tablet' = tablet
     /\ (/\ acts[LocalMaster] = EmptyActions
         /\ inflight[LocalMaster] # <<>> /\ inflight'[LocalMaster] = Tail(inflight[LocalMaster]))
        => /\ tablet' = tablet
           /\ resp'[LocalMaster] = NoResponse
     /\ (/\ acts[LocalMaster] = EmptyActions
         /\ pc[LocalMaster] = "waiting" /\ pc'[LocalMaster] = "idle")
        => /\ ret'[LocalMaster] = StatusOK
           /\ tablet' = tablet]_vars

\* The second Write, with empty Actions, has returned OK on a catalog that
\* holds the rows of the first.
C19_Witness ==
  /\ WriteReturnedOK(LocalMaster)
  /\ acts[LocalMaster] = EmptyActions
  /\ calls = 2 /\ submitted = 2
  /\ tablet[LocalMaster] # {}

\* C20: in distributed mode, a CreateNew on an empty disk whose discovery
\* RPCs all answer, with uuids and addresses that are all different, persists
\* a committed configuration with opid_index the sentinel and one voter per
\* configured address, in configured order, each with the uuid discovered at
\* that address; so does every CreateNew that returns OK.  If a discovery RPC
\* fails, or a uuid or an address occurs twice, CreateNew fails and persists
\* no consensus metadata.
AllAnswered ==
  /\ Len(discovered_uuids) = Len(opts.master_addresses)
  /\ \A i \in 1..Len(discovered_uuids) : discovered_uuids[i] # Unreachable

NoDuplicate(seq) == \A i, j \in 1..Len(seq) : i < j => seq[i] # seq[j]

PersistedAsDiscovered ==
  /\ consensus_meta # <<>>
  /\ consensus_meta[1].committed_config.opid_index = kInvalidOpIdIndex
  /\ Len(consensus_meta[1].committed_config.peers) = Len(opts.master_addresses)
  /\ \A i \in 1..Len(opts.master_addresses) :
       LET peer == consensus_meta[1].committed_config.peers[i]
       IN  /\ peer.member_type = "VOTER"
           /\ peer.has_permanent_uuid
           /\ peer.permanent_uuid = discovered_uuids[i]
           /\ peer.has_last_known_addr
           /\ HostPortFromPB(peer.last_known_addr) = opts.master_addresses[i]

C20_DistributedCreateNew ==
  (boot.op = "CreateNew" /\ IsDistributed(opts) /\ boot.status.code # "AlreadyPresent")
    => IF AllAnswered /\ NoDuplicate(discovered_uuids) /\ NoDuplicate(opts.master_addresses)
         THEN PersistedAsDiscovered
         ELSE boot.status # StatusOK /\ consensus_meta = <<>>

\* CreateNew has returned OK for three configured addresses.
C20_Witness ==
  /\ boot.op = "CreateNew" /\ boot.status = StatusOK
  /\ Len(opts.master_addresses) = kNumReplicas
  /\ PersistedAsDiscovered

\* C21: in every reachable catalog state every stored key (t, id) has t in
\* {TABLE, TABLET} and a non-empty id, and no two rows share a key. Checked in
\* the stronger form that a TABLE row carries the id of a table and a TABLET
\* row the id of a tablet.
UniqueKeys(rows) ==
  \A r1, r2 \in rows :
    (r1.entry_type = r2.entry_type /\ r1.entry_id = r2.entry_id) => r1 = r2

C22_FailedDecode ==
  [][\A m \in Masters :
       /\ (inflight[m] # <<>> /\ inflight'[m] = Tail(inflight[m])
           /\ ~CanDecode(Head(inflight[m]))) =>
            /\ resp'[m].has_error
            /\ resp'[m].error # StatusOK
            /\ tablet' = tablet /\ committed' = committed /\ wlog' = wlog
       /\ (pc[m] = "waiting" /\ pc'[m] = "idle" /\ ~CanDecode(req[m])) =>
            ret'[m] = resp[m].error /\ ret'[m] # StatusOK]_vars

\* SyncWrite has returned the decode failure of a request whose first
\* operation, an insert of a key not in the catalog, was followed by an
\* operation that cannot be decoded; the catalog held a row before.
C22_Witness ==
  /\ pc[LocalMaster] = "idle"
  /\ ret[LocalMaster] = Status("InvalidArgument", kDecodeFailedMsg)
  /\ Len(req[LocalMaster]) = 2
  /\ req[LocalMaster][1].type = "INSERT"
  /\ ~HasKey(tablet[LocalMaster], req[LocalMaster][1].entry_type,
             req[LocalMaster][1].entry_id)
  /\ tablet[LocalMaster] # {}

\* C23: a notification handled on a master whose tablet peer has no running
\* consensus any more (Shutdown has run, before the notification was posted
\* or while it waited) returns without running leader_cb_ and without
\* aborting, whatever the order of shutdowns, elections and notifications.
HandlerStep(m) == pending'[m] = pending[m] - 1

C23_AfterShutdown ==
  [][\A m \in Masters :
       (HandlerStep(m) /\ ~HasConsensus(lifecycle[m])) =>
          /\ handled'[m].returned /\ ~handled'[m].ran /\ ~handled'[m].aborted
          /\ leader_cb_runs' = leader_cb_runs
          /\ lifecycle' = lifecycle
          /\ role' = role]_vars

\* A master that was leader has been shut down, and its handler has since
\* returned from a notification without a consensus handle; another master
\* is leader.
C23_Witness ==
  \E m, n \in Masters :
    /\ lifecycle[m] = "stopped"
    /\ handled[m].returned /\ ~handled[m].consensus
    /\ pending[m] = 0
    /\ role[n] = "LEADER"

\* C24: when leader_cb_ returns a non-OK status the process aborts if and
\* only if the catalog manager is still initialized; if the catalog manager
\* has shut down the handler returns normally.
C24_FatalUnlessShutDown ==
  [][\A m \in Masters :
       (HandlerStep(m) /\ handled'[m].ran /\ handled'[m].s # StatusOK) =>
          /\ handled'[m].aborted <=> IsInitialized(lifecycle[m])
          /\ handled'[m].returned <=> ~IsInitialized(lifecycle[m])
          /\ (lifecycle'[m] = "aborted") <=> IsInitialized(lifecycle[m])
          /\ ~IsInitialized(lifecycle[m]) => lifecycle' = lifecycle]_vars

\* One master has aborted on a failed callback; on another, whose catalog
\* manager had shut down, the handler has returned from a failed callback.
C24_Witness ==
  \E m, n \in Masters :
    /\ lifecycle[m] = "aborted" /\ handled[m].aborted /\ handled[m].s # StatusOK
    /\ lifecycle[n] = "closing"
    /\ handled[n].ran /\ handled[n].s # StatusOK /\ handled[n].returned

\* C25: VisitTables calls the visitor only for TABLE rows and VisitTablets
\* only for TABLET rows, once per row and in key order; the scan ends at the
\* first row whose metadata does not parse or whose visitor call returns an
\* error, that error is what the scan returns, and the visitor is not called
\* for that unparsable row or for any later row.  A scan that returns OK has
\* called the visitor for every row of its type.
ScanOf(m) ==
  ScanRows(tablet[m], IF visited[m].kind = "tables" THEN TABLES_ENTRY ELSE TABLETS_ENTRY)

CallId(c) == IF visited[LocalMaster].kind = "tables" THEN c.table_id ELSE c.tablet_id

C25_VisitorErrors ==
  LET m == LocalMaster
      v == visited[m]
      n == Len(v.calls)
  IN  (v.kind # "none") =>
        /\ n <= Len(ScanOf(m))
        /\ Len(v.returns) = n
        /\ \A i \in 1..n :
             /\ \E r \in tablet[m] :
                  /\ r.entry_type = (IF v.kind = "tables" THEN TABLES_ENTRY
                                     ELSE TABLETS_ENTRY)
                  /\ r.entry_id = CallId(v.calls[i])
             /\ CallId(v.calls[i]) = ScanOf(m)[i].entry_id
             /\ CanParse(ScanOf(m)[i].metadata)
             /\ \A j \in 1..n : CallId(v.calls[j]) = CallId(v.calls[i]) => j = i
        /\ \A i \in 1..(n - 1) : v.returns[i] = StatusOK
        /\ (n > 0 /\ v.returns[n] # StatusOK) => v.status = v.returns[n]
        /\ (v.status = StatusOK) => n = Len(ScanOf(m))
        /\ (v.status # StatusOK /\ (n = 0 \/ v.returns[n] = StatusOK)) =>
             /\ n < Len(ScanOf(m))
             /\ ~CanParse(ScanOf(m)[n + 1].metadata)
             /\ v.status.code = "Corruption"

\* A scan of two table rows has stopped at the first, whose visitor call
\* returned an error; a scan of two tablet rows would stop at the second,
\* which does not parse.
C25_Witness ==
  LET v == visited[LocalMaster]
  IN  /\ v.kind = "tables"
      /\ Len(ScanRows(tablet[LocalMaster], TABLES_ENTRY)) = 2
      /\ Len(v.calls) = 1
      /\ v.status = Status("IllegalState", kVisitorFailedMsg)
      /\ Len(ScanRows(tablet[LocalMaster], TABLETS_ENTRY)) = 2
      /\ ~CanParse(ScanRows(tablet[LocalMaster], TABLETS_ENTRY)[2].metadata)

\* C26: SetupTablet takes its steps in the order InitLocalRaftPeerPB, new
\* TabletPeer, SetBootstrapping, BootstrapTablet, Init, Start,
\* RegisterMaintenanceOps, schema_; it stops at the first step that fails and
\* returns that failure with a message prefix that identifies the step; Start
\* is not invoked unless Init succeeded, and the maintenance operations are
\* not registered unless Start succeeded.
SetupSteps ==
  <<"InitLocalRaftPeerPB", "TabletPeer", "SetBootstrapping", "BootstrapTablet",
    "Init", "Start", "RegisterMaintenanceOps", "schema_">>

CollaboratorFailures == {kNoConsensusMetadata, kBootstrapFailed, kPeerFailed}

\* The step the prefix of a failure's message names.
StepNamed(status) ==
  IF \E e \in CollaboratorFailures : status = Prepend(e, kInitPrefix) THEN "Init"
  ELSE IF \E e \in CollaboratorFailures : status = Prepend(e, kStartPrefix) THEN "Start"
  ELSE "unnamed"

\* The steps are the first n of SetupSteps; a failure was the last step taken.
StepsInOrder ==
  LET n == Len(boot.steps)
  IN  /\ n <= Len(SetupSteps)
      /\ boot.steps = SubSeq(SetupSteps, 1, n)
      /\ (boot.setup_status = StatusOK) <=> (n = Len(SetupSteps))
      /\ (boot.setup_status # StatusOK) =>
           boot.steps[n] \in {"BootstrapTablet", "Init", "Start"}

Invoked(step) == \E i \in 1..Len(boot.steps) : boot.steps[i] = step

PollStep(m) == wait'[m] # wait[m]

C27_ShutdownEndsWait ==
  /\ \A m \in Masters :
       (lifecycle[m] = "stopped" /\ wait[m].pc = "polling")
         ~> (wait[m].pc = "returned" /\ wait[m].ret \in PollErrors)
  /\ [][\A m \in Masters :
          /\ (PollStep(m) /\ lifecycle[m] = "stopped") =>
               /\ wait'[m].status \in PollErrors
               /\ wait'[m].pc = "returned" /\ wait'[m].ret = wait'[m].status
          /\ (PollStep(m) /\ IsTimedOut(wait'[m].status)) =>
               wait'[m].pc = "polling" /\ wait'[m].ret = NotCalled]_vars

\* WaitUntilRunning on a master has returned the error of a poll made after
\* the shutdown of its tablet peer, after polls that timed out; on another
\* master MaxPolls polls have timed out and the loop is still polling.
C27_Witness ==
  \E m, n \in Masters :
    /\ lifecycle[m] = "stopped"
    /\ wait[m].pc = "returned" /\ wait[m].ret \in PollErrors
    /\ wait[m].seconds_waited > 2
    /\ wait[n].pc = "polling" /\ wait[n].seconds_waited = MaxPolls
    /\ IsTimedOut(wait[n].status)

\* C28: in non-distributed mode a CreateNew on a disk without a catalog
\* tablet persists consensus metadata at the minimum term whose committed
\* configuration is flagged local, has the sentinel opid_index and has one
\* peer, a voter with the uuid of this master's filesystem; it issues no
\* discovery RPC.
C28_LocalCreateNew ==
  (boot.op = "CreateNew" /\ ~IsDistributed(opts) /\ boot.status.code # "AlreadyPresent") =>
    /\ consensus_meta # <<>>
    /\ consensus_meta[1].current_term = kMinimumTerm
    /\ consensus_meta[1].committed_config.obsolete_local
    /\ consensus_meta[1].committed_config.opid_index = kInvalidOpIdIndex
    /\ Len(consensus_meta[1].committed_config.peers) = 1
    /\ consensus_meta[1].committed_config.peers[1].member_type = "VOTER"
    /\ consensus_meta[1].committed_config.peers[1].has_permanent_uuid
    /\ consensus_meta[1].committed_config.peers[1].permanent_uuid = UuidOf(LocalMaster)
    /\ boot.rpcs = 0
    /\ discovered_uuids = <<>>

\* A master started without master addresses has created its catalog tablet
\* and set the tablet up.
C28_Witness ==
  /\ boot.op = "CreateNew" /\ ~IsDistributed(opts)
  /\ boot.status = StatusOK
  /\ consensus_meta # <<>>
  /\ tablet_peer_ # nullptr

\* C29: CreateNew persists the tablet metadata before it builds the
\* configuration and persists the consensus metadata: consensus metadata is
\* on disk only if tablet metadata is; a CreateNew that fails at the
\* configuration leaves the tablet metadata without consensus metadata, and
\* on that disk a Load in distributed mode fails without setting a tablet
\* peer up (consensus metadata not found, when the schema is the current one).
PartlyCreated == tablet_meta # <<>> /\ consensus_meta = <<>>

C29_TabletMetadataFirst ==
  /\ consensus_meta # <<>> => tablet_meta # <<>>
  /\ (boot.op = "CreateNew" /\ boot.status.code \notin {"OK", "AlreadyPresent"}
      /\ boot.setup_calls = 0) => PartlyCreated
  /\ (boot.op = "Load" /\ IsDistributed(opts) /\ PartlyCreated) =>
       /\ boot.status # StatusOK
       /\ boot.setup_calls = 0
       /\ tablet_peer_ = nullptr
       /\ SchemaEquals(tablet_meta[1].schema, BuildTableSchema) =>
            /\ boot.status = Status("NotFound",
                                    "Unable to load consensus metadata for tablet "
                                    \o kSysCatalogTabletId)
            /\ boot.cmeta_loads = 1

\* A CreateNew has failed at the configuration and, after a restart in
\* distributed mode, Load has failed on the missing consensus metadata.
C29_Witness ==
  /\ boot.op = "Load" /\ IsDistributed(opts)
  /\ PartlyCreated
  /\ boot.status.code = "NotFound"
  /\ boot.cmeta_loads = 1
  /\ created = <<>>

\* C30: SyncWrite returns OK only from the wait on the latch, after the
\* transaction was submitted and its completion callback has released the
\* latch, and only when the response has neither an RPC-level error nor a
\* per-row error; when SubmitWrite fails SyncWrite returns that error at
\* once, with nothing submitted and no wait; and while the callback has not
\* run SyncWrite does not return.
SyncWriteReturns(m) == pc[m] = "waiting" /\ pc'[m] = "idle"

C30_ReturnsAfterCallback ==
  [][\A m \in Masters :
       /\ (ret'[m] = StatusOK /\ ret'[m] # ret[m]) =>
            /\ SyncWriteReturns(m)
            /\ latch[m] = 0 /\ inflight[m] = <<>>
            /\ ~resp[m].has_error /\ resp[m].per_row_errors = <<>>
       /\ SyncWriteReturns(m) => latch[m] = 0 /\ inflight[m] = <<>>
       /\ (pc[m] = "waiting" /\ latch[m] = 1) => pc'[m] = "waiting"
       /\ (pc[m] = "idle" /\ calls' = calls + 1 /\ m \in config
           /\ lifecycle[m] = "stopped" /\ FLAGS_sys_catalog_fail_during_write = 0) =>
            /\ pc'[m] = "idle"
            /\ ret'[m] = kSubmitFailed
            /\ inflight' = inflight /\ submitted' = submitted /\ latch' = latch
            /\ tablet' = tablet]_vars

\* After a write that returned from the latch and left a row in the catalog,
\* the tablet peer was shut down and a second SyncWrite came back with the
\* failure of SubmitWrite, nothing submitted.
C30_Witness ==
  /\ lifecycle[LocalMaster] = "stopped"
  /\ pc[LocalMaster] = "idle"
  /\ ret[LocalMaster] = kSubmitFailed
  /\ calls = 2 /\ submitted = 1
  /\ tablet[LocalMaster] # {}

====
